---------------------------- MODULE Spec2Model ----------------------------
(***************************************************************************)
(* Scheduling core of Halide/src/Func.cpp (class Stage): the Dimension     *)
(* List (schedule().dims()), the Split History (schedule().splits()) and   *)
(* the directives that mutate them.                                        *)
(*                                                                         *)
(* A variable name is a dot-qualified string in the source ("x.xo.a").     *)
(* Here it is the sequence of its dot-free components (<<"x","xo","a">>),  *)
(* so that  old_name + "." + inner  is  Append(old_name, inner)  and the   *)
(* empty string is <<>>.  A user_assert / user_error / internal_assert     *)
(* that fails throws: the call ends there with an error and every          *)
(* assignment made before it stays.                                        *)
(***************************************************************************)
EXTENDS Integers, Sequences, FiniteSets, TLC

VARIABLES
    def_kind,       \* "init" | "update" | "extern": which definition the stage schedules
    assoc,          \* prove_associativity(...).associative() for the stage's definition
    comm,           \* prove_associativity(...).commutative()
    dims,           \* definition.schedule().dims()
    splits,         \* definition.schedule().splits()
    allow_race,     \* definition.schedule().allow_race_conditions()
    atomic_flag,    \* definition.schedule().atomic()
    override_flag,  \* definition.schedule().override_atomic_associativity_test()
    fuse_var,       \* var of original_def.schedule().fuse_level().level; "" when inlined
    last,           \* the last directive call: its name, arguments and outcome
    pre,            \* the schedule and the definition as they were when the last call began
    left,           \* number of directive calls the exploration still makes
    defn,           \* the definition's dim_vars, args(), values(), schedule().rvars()
                    \* and predicate
    intm,           \* the Func that rfactor returned, NoIntm before
    specializations,\* original_def.specializations()
    cache,          \* what the Pipeline of the Func holds compiled, NoCache when nothing
    prior,          \* last and pre as they were when the last call began, kept in the
                    \* behaviours that compare a state with the one two calls before
    pure_fuse_var   \* var of function.definition().schedule().fuse_level().level when
                    \* the stage is an update definition; "" when inlined

vars == <<def_kind, assoc, comm, dims, splits, allow_race, atomic_flag,
          override_flag, fuse_var, last, pre, left, defn, intm, specializations, cache,
          prior, pure_fuse_var>>

----------------------------------------------------------------------------
(* Bounds of the exploration: the number of directive calls in a behaviour *)

MaxCalls == 2

MaxTagCalls == 3

MaxSplitCalls == 3

MaxRfactorCalls == 3

MaxSpecializeCalls == 4

MaxCacheCalls == 4

MaxInverseCalls == 3

MaxRemoveCalls == 4

MaxFuseLevelCalls == 3

MaxTagWithFactorCalls == 3

MaxHandleCalls == 4

----------------------------------------------------------------------------
(* Data model *)

NoName == <<>>

Handle(n, rv) == [name |-> n, is_rvar |-> rv]

Factor(n) == [sym |-> FALSE, val |-> n]

\* a factor that is a runtime parameter: nothing is provable about its size
SymFactor == [sym |-> TRUE, val |-> 0]

\* Expr(): the undefined factor of a Fuse entry
NoFactor == [sym |-> FALSE, val |-> 0]

Dim(v, ft, api, dt) == [var |-> v, for_type |-> ft, device_api |-> api, dim_type |-> dt]

is_pure(d) == d.dim_type \in {"PureVar", "PureRVar"}

is_rvar(d) == d.dim_type \in {"PureRVar", "ImpureRVar"}

is_parallel(t) == t \in {"Parallel", "GPUBlock", "GPUThread", "Vectorized", "GPULane"}

is_init == def_kind # "update"

\* can_prove(a >= b) on factors
can_prove_ge(a, b) == IF a.sym \/ b.sym THEN a = b ELSE a.val >= b.val

var_name_match(candidate, var) ==
    /\ Len(candidate) > 0
    /\ candidate[Len(candidate)] = var

\* index of the first dimension matching var, 0 when there is none
FirstMatch(ds, var) ==
    IF \E i \in 1..Len(ds) : var_name_match(ds[i].var, var)
    THEN CHOOSE i \in 1..Len(ds) :
            /\ var_name_match(ds[i].var, var)
            /\ \A j \in 1..(i - 1) : ~var_name_match(ds[j].var, var)
    ELSE 0

\* index of the last dimension matching var, 0 when there is none
LastMatch(ds, var) ==
    IF \E i \in 1..Len(ds) : var_name_match(ds[i].var, var)
    THEN CHOOSE i \in 1..Len(ds) :
            /\ var_name_match(ds[i].var, var)
            /\ \A j \in (i + 1)..Len(ds) : ~var_name_match(ds[j].var, var)
    ELSE 0

RemoveAt(s, i) == [j \in 1..(Len(s) - 1) |-> IF j < i THEN s[j] ELSE s[j + 1]]

\* an expression, as the set of the variables it mentions
Mentions(names) == {<<n>> : n \in names}

\* the parts of a Definition that rfactor reads and rewrites: the pure arguments of the
\* Func (dim_vars), the left-hand side (args), the right-hand side (values: the Func it
\* loads its previous value from, the intermediate Func it merges, the variables
\* it mentions), the reduction domain (rvars) and the predicates of the domain
Definition(dim_vars, args, values, rvars, predicates) ==
    [dim_vars |-> dim_vars, args |-> args, values |-> values, rvars |-> rvars,
     predicates |-> predicates]

Values(merges, mentions) == [merges |-> merges, mentions |-> mentions]

\* no Func has been returned by rfactor
NoIntm == [defined |-> FALSE]

Call(op, err, hs, t, factor, tail) ==
    [t |-> t, op |-> op, err |-> err, hs |-> hs, factor |-> factor, tail |-> tail]

Snapshot == [dims |-> dims, splits |-> splits, fuse_var |-> fuse_var, defn |-> defn,
             intm |-> intm, specializations |-> specializations]

\* no record of the call before the last one is kept
Untracked == [tracked |-> FALSE]

\* the call before the last one
Tracked(l, p) == [last |-> l, pre |-> p, tracked |-> TRUE]

Prior == IF prior.tracked THEN Tracked(last, pre) ELSE prior

\* Pipeline::invalidate_cache has run, or nothing was compiled yet
NoCache == [compiled |-> FALSE]

----------------------------------------------------------------------------
(* Stage::set_dim_type *)

\* a race gate that a successful associativity proof opens by itself
RaceGateAutoBypass(d, var, t) ==
    IF ~is_pure(d) /\ var.is_rvar /\ is_parallel(t)
    THEN IF ~allow_race /\ atomic_flag /\ ~override_flag /\ ~assoc
         THEN "AtomicNotAssociative"
         ELSE IF ~(allow_race \/ atomic_flag \/ assoc)
              THEN "RaceConditionError"
              ELSE "none"
    ELSE "none"

\* the race gate applied to one matched dimension d
RaceGate(d, var, t) ==
    IF ~is_pure(d) /\ var.is_rvar /\ is_parallel(t)
    THEN IF ~allow_race /\ atomic_flag /\ ~override_flag /\ ~assoc
         THEN "AtomicNotAssociative"
         ELSE IF ~(allow_race \/ atomic_flag)
              THEN "RaceConditionError"
              ELSE "none"
    ELSE "none"

\* a clash test that allow_race_conditions() switches off
VectorizedClashUnlessRaceAllowed(d, t) ==
    t = "Vectorized" /\ d.for_type = "Vectorized" /\ ~allow_race

\* the test applied to a dimension that var does not name
VectorizedClash(d, t) == t = "Vectorized" /\ d.for_type = "Vectorized"

RECURSIVE SetDimTypeFrom(_, _, _, _, _)
SetDimTypeFrom(ds, i, var, t, found) ==
    IF i > Len(ds)
    THEN [dims |-> ds, err |-> IF found THEN "none" ELSE "DimensionNotFound"]
    ELSE IF var_name_match(ds[i].var, var.name)
         THEN LET ds2 == [ds EXCEPT ![i].for_type = t]
                  e == RaceGate(ds[i], var, t)
              IN IF e # "none"
                 THEN [dims |-> ds2, err |-> e]
                 ELSE SetDimTypeFrom(ds2, i + 1, var, t, TRUE)
         ELSE IF VectorizedClash(ds[i], t)
              THEN [dims |-> ds, err |-> "MultipleVectorization"]
              ELSE SetDimTypeFrom(ds, i + 1, var, t, found)

set_dim_type(ds, var, t) == SetDimTypeFrom(ds, 1, var, t, FALSE)

\* Stage::serial / parallel / vectorize / unroll (one argument)
SetDimType(var, t) ==
    /\ left > 0
    /\ LET r == set_dim_type(dims, var, t)
       IN /\ dims' = r.dims
          /\ last' = Call("set_dim_type", r.err, <<var>>, t, NoFactor, "")
    /\ pre' = Snapshot
    /\ prior' = Prior
    /\ left' = left - 1
    /\ intm' = IF intm.defined /\ intm.owner = "stage"
               THEN [intm EXCEPT !.dims = set_dim_type(dims, var, t).dims]
               ELSE intm
    /\ UNCHANGED <<def_kind, assoc, comm, splits, allow_race, atomic_flag,
                   override_flag, fuse_var, defn, specializations, cache, pure_fuse_var>>

AllowRaceConditions ==
    /\ left > 0
    /\ allow_race' = TRUE
    /\ last' = Call("allow_race_conditions", "none", <<>>, "", NoFactor, "")
    /\ pre' = Snapshot
    /\ prior' = Prior
    /\ left' = left - 1
    /\ UNCHANGED <<def_kind, assoc, comm, dims, splits, atomic_flag,
                   override_flag, fuse_var, defn, intm, specializations, cache, pure_fuse_var>>

Atomic(override_associativity_test) ==
    /\ left > 0
    /\ atomic_flag' = TRUE
    /\ override_flag' = override_associativity_test
    /\ last' = Call("atomic", "none", <<>>, "", NoFactor, "")
    /\ pre' = Snapshot
    /\ prior' = Prior
    /\ left' = left - 1
    /\ UNCHANGED <<def_kind, assoc, comm, dims, splits, allow_race, fuse_var,
                   defn, intm, specializations, cache, pure_fuse_var>>

----------------------------------------------------------------------------
(* Stage::split *)

SplitEntry(old_var, outer, inner, factor, exact, tail, split_type) ==
    [factor |-> factor, tail |-> tail, old_var |-> old_var, outer |-> outer,
     inner |-> inner, exact |-> exact, split_type |-> split_type]

is_split(s) == s.split_type = "SplitVar"

is_fuse(s) == s.split_type = "FuseVars"

is_rename(s) == s.split_type = "RenameVar"

is_purify(s) == s.split_type = "PurifyRVar"

\* the check that the new names aren't already in the dims list
SplitNameCollision(ds, old, outer, inner) ==
    \E i \in 1..Len(ds) : \E nn \in {inner, outer} :
        var_name_match(ds[i].var, nn) /\ nn # old

\* a replacement that would put the outer dimension innermost
SplitDimsOuterInnermost(ds, i, outer, inner) ==
    LET d == ds[i]
        din == [d EXCEPT !.var = Append(d.var, inner)]
        dout == [d EXCEPT !.var = Append(d.var, outer),
                          !.for_type = IF d.for_type = "Extern" THEN "Serial" ELSE @]
    IN [j \in 1..(Len(ds) + 1) |->
           IF j < i THEN ds[j]
           ELSE IF j = i THEN dout
           ELSE IF j = i + 1 THEN din
           ELSE ds[j - 1]]

\* the dims list with entry i replaced by the inner and the outer dimension
SplitDims(ds, i, outer, inner) ==
    LET d == ds[i]
        din == [d EXCEPT !.var = Append(d.var, inner)]
        dout == [d EXCEPT !.var = Append(d.var, outer),
                          !.for_type = IF d.for_type = "Extern" THEN "Serial" ELSE @]
    IN [j \in 1..(Len(ds) + 1) |->
           IF j < i THEN ds[j]
           ELSE IF j = i THEN din
           ELSE IF j = i + 1 THEN dout
           ELSE ds[j - 1]]

\* the set inner_vars after the first k entries of the history ss
RECURSIVE InnerVars(_, _)
InnerVars(ss, k) ==
    IF k = 0 THEN {}
    ELSE LET acc == InnerVars(ss, k - 1)
             s == ss[k]
         IN IF is_split(s)
            THEN acc \cup {s.inner}
                     \cup (IF s.old_var \in acc \cup {s.inner} THEN {s.outer} ELSE {})
            ELSE IF is_rename(s) \/ is_purify(s)
                 THEN acc \cup (IF s.old_var \in acc THEN {s.outer} ELSE {})
                 ELSE acc \cup (IF s.inner \in acc \/ s.outer \in acc
                                THEN {s.old_var} ELSE {})

\* m with key k bound to v (std::map operator[] assignment)
MapPut(m, k, v) == [n \in (DOMAIN m) \cup {k} |-> IF n = k THEN v ELSE m[n]]

\* the map descends_from_shiftinwards_outer after the first k entries of ss
RECURSIVE DescendsFromShiftInwardsOuter(_, _)
DescendsFromShiftInwardsOuter(ss, k) ==
    IF k = 0 THEN <<>>
    ELSE LET m == DescendsFromShiftInwardsOuter(ss, k - 1)
             s == ss[k]
             has == s.old_var \in DOMAIN m
         IN IF is_split(s) /\ s.tail = "ShiftInwards"
            THEN MapPut(m, s.outer, s.factor)
            ELSE IF is_split(s) /\ has
                 THEN MapPut(MapPut(m, s.inner, m[s.old_var]), s.outer, m[s.old_var])
                 ELSE IF (is_rename(s) \/ is_purify(s)) /\ has
                      THEN MapPut(m, s.outer, m[s.old_var])
                      ELSE m

\* round_up_ok after the walk over the history
RoundUpOk(ss, old_name, exact) ==
    IF ~exact /\ ~is_init
    THEN old_name \notin InnerVars(ss, Len(ss))
    ELSE ~exact

\* a selection that would not look at the earlier ShiftInwards splits
AutoTailIgnoringShiftInwards(ss, old_name, factor, exact) ==
    IF exact THEN "GuardWithIf"
    ELSE IF ~is_init
         THEN IF RoundUpOk(ss, old_name, exact) THEN "RoundUp" ELSE "GuardWithIf"
         ELSE "ShiftInwards"

\* the tail strategy selected for TailStrategy::Auto
AutoTail(ss, old_name, factor, exact) ==
    IF exact THEN "GuardWithIf"
    ELSE IF ~is_init
         THEN IF RoundUpOk(ss, old_name, exact) THEN "RoundUp" ELSE "GuardWithIf"
         ELSE LET m == DescendsFromShiftInwardsOuter(ss, Len(ss))
              IN IF old_name \in DOMAIN m /\ can_prove_ge(m[old_name], factor)
                 THEN "RoundUp"
                 ELSE "ShiftInwards"

\* the assertions without the one on update definitions
TailLegalOnAnyDefinition(tail, exact) == exact => tail = "GuardWithIf"

\* the two assertions on the resolved tail strategy
TailLegal(tail, exact) ==
    /\ ~is_init => tail # "ShiftInwards"
    /\ exact => tail = "GuardWithIf"

\* Stage::split(const string &old, outer, inner, factor, exact, tail) applied to the
\* schedule st = [dims, splits, fuse_var, err]
split_names(st, old, outer, inner, factor, exact, tail) ==
    IF SplitNameCollision(st.dims, old, outer, inner)
    THEN [st EXCEPT !.err = "NameCollision"]
    ELSE LET i == FirstMatch(st.dims, old)
         IN IF i = 0
            THEN [st EXCEPT !.err = "DimensionNotFound"]
            ELSE LET old_name == st.dims[i].var
                     ds2 == SplitDims(st.dims, i, outer, inner)
                     st2 == [st EXCEPT !.dims = ds2]
                     round_up_ok == RoundUpOk(st.splits, old_name, exact)
                 IN IF ~exact /\ ~is_init /\ ~(round_up_ok \/ tail # "RoundUp")
                    THEN [st2 EXCEPT !.err = "InvalidTailStrategy"]
                    ELSE LET tl == IF tail = "Auto"
                                   THEN AutoTail(st.splits, old_name, factor, exact)
                                   ELSE tail
                         IN IF ~TailLegal(tl, exact)
                            THEN [st2 EXCEPT !.err = "InvalidTailStrategy"]
                            ELSE [st2 EXCEPT !.splits =
                                     Append(@, SplitEntry(old_name,
                                                          Append(old_name, outer),
                                                          Append(old_name, inner),
                                                          factor, exact, tl, "SplitVar"))]

\* Stage::split(VarOrRVar old, VarOrRVar outer, VarOrRVar inner, Expr factor, tail)
split_op(st, old, outer, inner, factor, tail) ==
    IF outer.is_rvar # old.is_rvar \/ inner.is_rvar # old.is_rvar
    THEN [st EXCEPT !.err = "KindMismatch"]
    ELSE split_names(st, old.name, outer.name, inner.name, factor, old.is_rvar, tail)

Sched == [dims |-> dims, splits |-> splits, fuse_var |-> fuse_var, err |-> "none"]

\* the writes of a directive that takes the schedule to r
StageWrite(r, call) ==
    /\ left > 0
    /\ dims' = r.dims
    /\ splits' = r.splits
    /\ fuse_var' = r.fuse_var
    /\ last' = call
    /\ pre' = Snapshot
    /\ prior' = Prior
    /\ left' = left - 1
    /\ intm' = IF intm.defined /\ intm.owner = "stage"
               THEN [intm EXCEPT !.dims = r.dims, !.splits = r.splits]
               ELSE intm
    /\ UNCHANGED <<def_kind, assoc, comm, allow_race, atomic_flag, override_flag,
                   defn, specializations, pure_fuse_var>>

\* a directive called on a Stage: no method of Stage calls invalidate_cache
Directive(r, call) ==
    /\ StageWrite(r, call)
    /\ UNCHANGED cache

Split(old, outer, inner, factor, tail) ==
    LET r == split_op(Sched, old, outer, inner, factor, tail)
    IN Directive(r, Call("split", r.err, <<old, outer, inner>>, "", factor, tail))

----------------------------------------------------------------------------
(* Stage::parallel, vectorize and unroll with a factor *)

\* the names that a default-constructed Var or RVar can take
FreshNames == {"t1", "t2", "t3"}

\* Var tmp / RVar tmp: a name that no dimension has
Tmp(ds, rv) ==
    Handle(CHOOSE n \in FreshNames : \A i \in 1..Len(ds) : ~var_name_match(ds[i].var, n), rv)

\* split(var, var, tmp, factor, tail) and then the tag: parallel tags var, the outer
\* dimension; vectorize and unroll tag tmp, the inner one
tag_with_factor_op(st, var, factor, tail, t) ==
    LET tmp == Tmp(st.dims, var.is_rvar)
        r1 == split_op(st, var, var, tmp, factor, tail)
    IN IF r1.err # "none" THEN r1
       ELSE LET r2 == set_dim_type(r1.dims, IF t = "Parallel" THEN var ELSE tmp, t)
            IN [r1 EXCEPT !.dims = r2.dims, !.err = r2.err]

TagWithFactor(var, factor, tail, t) ==
    LET r == tag_with_factor_op(Sched, var, factor, tail, t)
    IN Directive(r, Call("tag_with_factor", r.err, <<var>>, t, factor, tail))

----------------------------------------------------------------------------
(* Stage::fuse *)

\* a fused dimension that would take the kind of the inner one
FusedDimTypeOfInner(inner_type, outer_type) == inner_type

\* the kind of the fused dimension
FusedDimType(inner_type, outer_type) ==
    IF inner_type \in {"PureRVar", "ImpureRVar"}
    THEN IF inner_type = "PureRVar" /\ outer_type = "PureRVar"
         THEN "PureRVar" ELSE "ImpureRVar"
    ELSE inner_type

\* the internal_assert on the kinds of the two fused dimensions
FuseKindsAgree(inner_dim, outer_type) ==
    \/ is_rvar(inner_dim) /\ outer_type \in {"PureRVar", "ImpureRVar"}
    \/ ~is_rvar(inner_dim) /\ outer_type = "PureVar"

fuse_op(st, inner, outer, fused) ==
    IF outer.is_rvar # inner.is_rvar \/ fused.is_rvar # inner.is_rvar
    THEN [st EXCEPT !.err = "KindMismatch"]
    ELSE LET io == FirstMatch(st.dims, outer.name)
         IN IF io = 0
            THEN [st EXCEPT !.err = "DimensionNotFound"]
            ELSE LET outer_name == st.dims[io].var
                     outer_type == st.dims[io].dim_type
                     ds1 == RemoveAt(st.dims, io)
                     ii == FirstMatch(ds1, inner.name)
                 IN IF ii = 0
                    THEN [st EXCEPT !.dims = ds1, !.err = "DimensionNotFound"]
                    ELSE LET inner_name == ds1[ii].var
                             fused_name == Append(inner_name, fused.name)
                             ds2 == [ds1 EXCEPT ![ii].var = fused_name]
                         IN IF ~FuseKindsAgree(ds2[ii], outer_type)
                            THEN [st EXCEPT !.dims = ds2, !.err = "InternalError"]
                            ELSE [st EXCEPT
                                    !.dims = [ds2 EXCEPT ![ii].dim_type =
                                                 FusedDimType(@, outer_type)],
                                    !.splits = Append(@, SplitEntry(fused_name, outer_name,
                                                   inner_name, NoFactor, TRUE, "RoundUp",
                                                   "FuseVars"))]

Fuse(inner, outer, fused) ==
    LET r == fuse_op(Sched, inner, outer, fused)
    IN Directive(r, Call("fuse", r.err, <<inner, outer, fused>>, "", NoFactor, ""))

----------------------------------------------------------------------------
(* Stage::purify *)

purify_op(st, old_var, new_var) ==
    IF ~(old_var.is_rvar /\ ~new_var.is_rvar)
    THEN [st EXCEPT !.err = "KindMismatch"]
    ELSE LET i == FirstMatch(st.dims, old_var.name)
         IN IF i = 0
            THEN [st EXCEPT !.err = "DimensionNotFound"]
            ELSE [st EXCEPT
                    !.dims = [@ EXCEPT ![i].var = <<new_var.name>>,
                                       ![i].dim_type = "PureVar"],
                    !.splits = Append(@, SplitEntry(st.dims[i].var, <<new_var.name>>, NoName,
                                                    Factor(1), FALSE, "RoundUp",
                                                    "PurifyRVar"))]

Purify(old_var, new_var) ==
    LET r == purify_op(Sched, old_var, new_var)
    IN Directive(r, Call("purify", r.err, <<old_var, new_var>>, "", NoFactor, ""))

----------------------------------------------------------------------------
(* Stage::rename *)

\* The backward walk of rename over the history, from entry k down to 1:
\* the history with the defining entry rewritten, and whether one was found,
\* or the error raised on the way.
\* a walk that would find no defining entry, so that every rename appends
RenameWalkAlwaysAppends(ss, k, old_name, new_name) ==
    [splits |-> ss, err |-> "none", found |-> FALSE]

RECURSIVE RenameWalk(_, _, _, _)
RenameWalk(ss, k, old_name, new_name) ==
    IF k = 0
    THEN [splits |-> ss, err |-> "none", found |-> FALSE]
    ELSE LET s == ss[k]
         IN IF is_fuse(s)
            THEN IF s.inner = old_name \/ s.outer = old_name
                 THEN [splits |-> ss, err |-> "AlreadyTransformed", found |-> FALSE]
                 ELSE IF s.old_var = old_name
                      THEN [splits |-> [ss EXCEPT ![k].old_var = new_name],
                            err |-> "none", found |-> TRUE]
                      ELSE RenameWalk(ss, k - 1, old_name, new_name)
            ELSE IF s.inner = old_name
                 THEN [splits |-> [ss EXCEPT ![k].inner = new_name],
                       err |-> "none", found |-> TRUE]
                 ELSE IF s.outer = old_name
                      THEN [splits |-> [ss EXCEPT ![k].outer = new_name],
                            err |-> "none", found |-> TRUE]
                      ELSE IF s.old_var = old_name
                           THEN [splits |-> ss, err |-> "AlreadyTransformed",
                                 found |-> FALSE]
                           ELSE RenameWalk(ss, k - 1, old_name, new_name)

rename_op(st, old_var, new_var) ==
    IF new_var.is_rvar # old_var.is_rvar
    THEN [st EXCEPT !.err = "KindMismatch"]
    ELSE LET i == FirstMatch(st.dims, old_var.name)
         IN IF i = 0
            THEN [st EXCEPT !.err = "DimensionNotFound"]
            ELSE LET old_name == st.dims[i].var
                     new_name == Append(old_name, new_var.name)
                     st2 == [st EXCEPT !.dims[i].var = new_name]
                     w == RenameWalk(st.splits, Len(st.splits), old_name, new_name)
                 IN IF w.err # "none"
                    THEN [st2 EXCEPT !.err = w.err]
                    ELSE IF w.found
                         THEN [st2 EXCEPT !.splits = w.splits]
                         ELSE [st2 EXCEPT !.splits =
                                  Append(@, SplitEntry(old_name, new_name, NoName, Factor(1),
                                                       old_var.is_rvar, "RoundUp",
                                                       "RenameVar"))]

Rename(old_var, new_var) ==
    LET r == rename_op(Sched, old_var, new_var)
    IN Directive(r, Call("rename", r.err, <<old_var, new_var>>, "", NoFactor, ""))

----------------------------------------------------------------------------
(* Stage::reorder *)

\* idx: for every var the location of the last dimension it names (0: none)
ReorderIdx(ds, vs) == [i \in 1..Len(vs) |-> LastMatch(ds, vs[i].name)]

\* a test that would pass over dimensions next to each other
ReordersRVarsApart(ds, idx) ==
    \E i \in 1..Len(idx) : \E j \in (i + 1)..Len(idx) :
        /\ ~is_pure(ds[idx[i]])
        /\ ~is_pure(ds[idx[j]])
        /\ idx[i] > idx[j] + 1

\* some pair of impure dimensions is listed against its current order
ReordersRVars(ds, idx) ==
    \E i \in 1..Len(idx) : \E j \in (i + 1)..Len(idx) :
        /\ ~is_pure(ds[idx[i]])
        /\ ~is_pure(ds[idx[j]])
        /\ idx[i] > idx[j]

\* the locations left in the order of the call
SortIdxOmitted(q) == q

\* std::sort of a sequence of numbers
RECURSIVE SortIdx(_)
SortIdx(q) ==
    IF Len(q) = 0 THEN <<>>
    ELSE LET m == CHOOSE i \in 1..Len(q) : \A j \in 1..Len(q) : q[i] <= q[j]
         IN <<q[m]>> \o SortIdx(RemoveAt(q, m))

\* the loop  dims[sorted[i]] = dims_old[idx[i]]  run for i = 1..k
RECURSIVE PlaceDims(_, _, _, _, _)
PlaceDims(ds, ds_old, sorted, idx, k) ==
    IF k = 0 THEN ds
    ELSE [PlaceDims(ds, ds_old, sorted, idx, k - 1) EXCEPT ![sorted[k]] = ds_old[idx[k]]]

\* the name of the dimension that sits, after the reorder, where the fuse level sat
NewFuseVarName(ds_old, ds_new, fv) ==
    LET p == FirstMatch(ds_old, fv)
    IN IF p # 0 THEN ds_new[p].var ELSE ds_new[1].var

reorder_op(st, vs) ==
    LET idx == ReorderIdx(st.dims, vs)
    IN IF \E i \in 1..Len(vs) : idx[i] = 0
       THEN [st EXCEPT !.err = "DimensionNotFound"]
       ELSE IF ReordersRVars(st.dims, idx) /\ ~(assoc /\ comm)
            THEN [st EXCEPT !.err = "UnsafeReorder"]
            ELSE LET ds_new == PlaceDims(st.dims, st.dims, SortIdx(idx), idx, Len(vs))
                     st2 == [st EXCEPT !.dims = ds_new]
                 IN IF st.fuse_var = ""
                    THEN st2
                    ELSE LET nv == NewFuseVarName(st.dims, ds_new, st.fuse_var)
                         IN IF nv = <<st.fuse_var>>
                            THEN st2
                            ELSE IF Len(nv) = 1 /\ \E i \in 1..Len(vs) : vs[i].name = nv[1]
                                 THEN [st2 EXCEPT !.fuse_var = nv[1]]
                                 ELSE [st EXCEPT !.err = "InternalError"]

Reorder(vs) ==
    LET r == reorder_op(Sched, vs)
    IN Directive(r, Call("reorder", r.err, vs, "", NoFactor, ""))

\* Stage::tile(x, y, xo, yo, xi, yi, xfactor, yfactor, tail)
tile_op(st, x, y, xo, yo, xi, yi, xfactor, yfactor, tail) ==
    LET s1 == split_op(st, x, xo, xi, xfactor, tail)
    IN IF s1.err # "none" THEN s1
       ELSE LET s2 == split_op(s1, y, yo, yi, yfactor, tail)
            IN IF s2.err # "none" THEN s2
               ELSE reorder_op(s2, <<xi, yi, xo, yo>>)

Tile(x, y, xo, yo, xi, yi, xfactor, yfactor, tail) ==
    LET r == tile_op(Sched, x, y, xo, yo, xi, yi, xfactor, yfactor, tail)
    IN Directive(r, Call("tile", r.err, <<x, y, xo, yo, xi, yi>>, "", xfactor, tail))

----------------------------------------------------------------------------
(* Stage::compute_with, for a loop level (g, var) of another Func g *)

ComputeWith(var) ==
    LET r == IF def_kind = "extern"
             THEN [Sched EXCEPT !.err = "ComputeWithExtern"]
             ELSE IF specializations # <<>>
             THEN [Sched EXCEPT !.err = "ComputeWithSpecializations"]
             ELSE [Sched EXCEPT !.fuse_var = var.name]
    IN Directive(r, Call("compute_with", r.err, <<var>>, "", NoFactor, ""))

----------------------------------------------------------------------------
(* Stage::specialize and Stage::specialize_fail, on the original definition *)

\* a condition: its type, the first Var or RVar it depends on ("" when none) and
\* what tells it from the other conditions
Condition(type, offending_var, id) ==
    [type |-> type, offending_var |-> offending_var, id |-> id]

const_true == Condition("bool", "", "true")

Specialization(condition, failure_message) ==
    [condition |-> condition, failure_message |-> failure_message]

\* Definition::add_specialization: the new variant goes to the back of the list
add_specialization(specs, condition) == Append(specs, Specialization(condition, ""))

\* the last variant is the one specialize_fail added
EndsInFailure(specs) == specs # <<>> /\ specs[Len(specs)].failure_message # ""

specialize_op(specs, condition) ==
    IF condition.type # "bool"
    THEN [specializations |-> specs, err |-> "ConditionNotBool"]
    ELSE IF condition.offending_var # ""
    THEN [specializations |-> specs, err |-> "ConditionDependsOnVar"]
    ELSE IF \E i \in 1..Len(specs) : specs[i].condition = condition
    THEN [specializations |-> specs, err |-> "none"]
    ELSE IF EndsInFailure(specs)
    THEN [specializations |-> specs, err |-> "SpecializeAfterSpecializeFail"]
    ELSE [specializations |-> add_specialization(specs, condition), err |-> "none"]

specialize_fail_op(specs, message) ==
    IF message = ""
    THEN [specializations |-> specs, err |-> "EmptyMessage"]
    ELSE IF EndsInFailure(specs)
    THEN [specializations |-> specs, err |-> "SecondSpecializeFail"]
    ELSE LET added == add_specialization(specs, const_true)
         IN [specializations |-> [added EXCEPT ![Len(added)].failure_message = message],
             err |-> "none"]

\* a call that takes the list of variants to r.specializations
SpecializationWrite(r, call) ==
    /\ left > 0
    /\ specializations' = r.specializations
    /\ last' = call
    /\ pre' = Snapshot
    /\ prior' = Prior
    /\ left' = left - 1
    /\ UNCHANGED <<def_kind, assoc, comm, dims, splits, allow_race, atomic_flag,
                   override_flag, fuse_var, defn, intm, cache, pure_fuse_var>>

Specialize(condition) ==
    LET r == specialize_op(specializations, condition)
    IN SpecializationWrite(r, Call("specialize", r.err, <<>>, condition.id, NoFactor, ""))

SpecializeFail(message) ==
    LET r == specialize_fail_op(specializations, message)
    IN SpecializationWrite(r, Call("specialize_fail", r.err, <<>>, message, NoFactor, ""))

----------------------------------------------------------------------------
(* Stage::gpu_threads(tx, device_api) *)

\* Stage::set_dim_device_api
set_dim_device_api(ds, var, api) ==
    IF FirstMatch(ds, var.name) = 0
    THEN [dims |-> ds, err |-> "DimensionNotFound"]
    ELSE [dims |-> [i \in 1..Len(ds) |->
                       IF var_name_match(ds[i].var, var.name)
                       THEN [ds[i] EXCEPT !.device_api = api]
                       ELSE ds[i]],
          err |-> "none"]

GpuThreads(tx, api) ==
    LET r1 == set_dim_device_api(dims, tx, api)
        r2 == IF r1.err # "none" THEN r1 ELSE set_dim_type(r1.dims, tx, "GPUThread")
    IN Directive([Sched EXCEPT !.dims = r2.dims, !.err = r2.err],
                 Call("gpu_threads", r2.err, <<tx>>, "GPUThread", NoFactor, ""))

----------------------------------------------------------------------------
(* apply_split_directive: a history entry applied to the reduction domain *)

\* std::find_if over rvars for the variable named n: its index, 0 for rvars.end()
FindRVar(rv, n) ==
    IF \E i \in 1..Len(rv) : rv[i] = n
    THEN CHOOSE i \in 1..Len(rv) : rv[i] = n /\ \A j \in 1..(i - 1) : rv[j] # n
    ELSE 0

\* substitute(name, value, expr) for every name of olds, value mentioning news
SubstituteVars(olds, news, expr) ==
    IF expr \cap olds # {} THEN (expr \ olds) \cup news ELSE expr

\* what rfactor holds while it applies the history: the reduction domain, its local
\* copy of the predicates, and the args and values of the definition
Exprs(rvars, predicates, args, values) ==
    [args |-> args, values |-> values, rvars |-> rvars, predicates |-> predicates]

\* substitute_var_in_exprs on the predicates, the args and the values
substitute_var_in_exprs(olds, news, e) ==
    [e EXCEPT !.predicates = {SubstituteVars(olds, news, p) : p \in @},
              !.args = [i \in DOMAIN @ |-> SubstituteVars(olds, news, @[i])],
              !.values = [@ EXCEPT !.mentions = SubstituteVars(olds, news, @)]]

\* the predicates among the results of apply_split(s, true, ...): a split whose tail is
\* guarded keeps the iterations inside the old extent
SplitPredicates(s) ==
    IF is_split(s) /\ s.tail = "GuardWithIf" THEN {{s.outer, s.inner}} ELSE {}

\* apply_split_result: the substitutions, then the predicates pushed
apply_split_result(s, olds, news, e) ==
    LET e2 == substitute_var_in_exprs(olds, news, e)
    IN [e2 EXCEPT !.predicates = @ \cup SplitPredicates(s)]

\* apply_split on the reduction variables
apply_split(s, e) ==
    LET i == FindRVar(e.rvars, s.old_var)
        rv == [j \in 1..(Len(e.rvars) + 1) |->
                  IF j < i THEN e.rvars[j]
                  ELSE IF j = i THEN s.inner
                  ELSE IF j = i + 1 THEN s.outer
                  ELSE e.rvars[j - 1]]
    IN apply_split_result(s, {s.old_var}, {s.outer, s.inner}, [e EXCEPT !.rvars = rv])

\* apply_fuse on the reduction variables
apply_fuse(s, e) ==
    LET io == FindRVar(e.rvars, s.outer)
        ii == FindRVar(e.rvars, s.inner)
        rv == RemoveAt([e.rvars EXCEPT ![io] = s.old_var], ii)
    IN apply_split_result(s, {s.outer, s.inner}, {s.old_var}, [e EXCEPT !.rvars = rv])

\* apply_purify on the reduction variables
apply_purify(s, e) ==
    LET i == FindRVar(e.rvars, s.old_var)
    IN apply_split_result(s, {s.old_var}, {s.outer},
                          [e EXCEPT !.rvars = RemoveAt(@, i)])

\* apply_rename on the reduction variables
apply_rename(s, e) ==
    LET i == FindRVar(e.rvars, s.old_var)
    IN apply_split_result(s, {s.old_var}, {s.outer},
                          [e EXCEPT !.rvars = [@ EXCEPT ![i] = s.outer]])

\* whether apply_split_directive finds the variables of s in the reduction domain
DirectiveApplies(s, rv) ==
    IF is_fuse(s)
    THEN FindRVar(rv, s.outer) # 0 /\ FindRVar(rv, s.inner) # 0
    ELSE FindRVar(rv, s.old_var) # 0

\* apply_split_directive, for an entry that applies
apply_split_directive(s, e) ==
    IF is_split(s) THEN apply_split(s, e)
    ELSE IF is_fuse(s) THEN apply_fuse(s, e)
    ELSE IF is_purify(s) THEN apply_purify(s, e)
    ELSE apply_rename(s, e)

\* The loop of rfactor over the first k entries of the history ss: the applied
\* entries change the reduction domain and the expressions, the others are kept (temp).
RECURSIVE ApplySplits(_, _, _)
ApplySplits(ss, k, e) ==
    IF k = 0 THEN [e |-> e, temp |-> <<>>]
    ELSE LET r == ApplySplits(ss, k - 1, e)
         IN IF DirectiveApplies(ss[k], r.e.rvars)
            THEN [r EXCEPT !.e = apply_split_directive(ss[k], r.e)]
            ELSE [r EXCEPT !.temp = Append(@, ss[k])]

----------------------------------------------------------------------------

(* remove_dimension *)

\* The backward walk of remove_dimension over entries k..1 of the history ss, with
\* the set removed_vars so far: the entries kept (temp), or the error raised.
\* a walk that would delete only the entries whose result is old_name itself
RECURSIVE RemoveWalkOfVarOnly(_, _, _, _)
RemoveWalkOfVarOnly(ss, k, old_name, removed) ==
    IF k = 0 THEN [err |-> "none", temp |-> <<>>]
    ELSE LET s == ss[k]
             hit == IF is_fuse(s) THEN s.old_var = old_name
                    ELSE IF is_split(s) THEN s.inner = old_name \/ s.outer = old_name
                    ELSE s.outer = old_name
             refused == IF is_fuse(s) THEN s.inner = old_name \/ s.outer = old_name
                        ELSE s.old_var = old_name
         IN IF refused
            THEN [err |-> "DependentTransformError", temp |-> <<>>]
            ELSE LET rest == RemoveWalkOfVarOnly(ss, k - 1, old_name, removed)
                 IN IF rest.err # "none" \/ hit THEN rest
                    ELSE [rest EXCEPT !.temp = Append(@, s)]

RECURSIVE RemoveWalk(_, _, _, _)
RemoveWalk(ss, k, old_name, removed) ==
    IF k = 0 THEN [err |-> "none", temp |-> <<>>]
    ELSE LET s == ss[k]
             hit == IF is_fuse(s) THEN s.old_var \in removed
                    ELSE IF is_split(s) THEN s.inner \in removed \/ s.outer \in removed
                    ELSE s.outer \in removed
             refused == IF is_fuse(s) THEN s.inner = old_name \/ s.outer = old_name
                        ELSE s.old_var = old_name
             removed2 == IF ~hit THEN removed
                         ELSE IF is_fuse(s) THEN removed \cup {s.outer, s.inner}
                         ELSE removed \cup {s.old_var}
         IN IF refused
            THEN [err |-> "DependentTransformError", temp |-> <<>>]
            ELSE LET rest == RemoveWalk(ss, k - 1, old_name, removed2)
                 IN IF rest.err # "none" \/ hit THEN rest
                    ELSE [rest EXCEPT !.temp = Append(@, s)]

\* the first dimension whose full name is var, 0 when there is none
FindDim(ds, var) ==
    IF \E i \in 1..Len(ds) : ds[i].var = var
    THEN CHOOSE i \in 1..Len(ds) : ds[i].var = var /\ \A j \in 1..(i - 1) : ds[j].var # var
    ELSE 0

\* remove_dimension(stage, definition, var) applied to the schedule st
remove_dimension(st, var) ==
    LET i == FindDim(st.dims, var)
    IN IF i = 0
       THEN [st EXCEPT !.err = "DimensionNotFound"]
       ELSE LET st2 == [st EXCEPT !.dims = RemoveAt(@, i)]
                w == RemoveWalk(st.splits, Len(st.splits), var, {var})
            IN IF w.err # "none"
               THEN [st2 EXCEPT !.err = w.err]
               ELSE [st2 EXCEPT !.splits = w.temp]

\* remove_dimension for the first k variables of the list rvars_removed
RECURSIVE RemoveDimensions(_, _, _)
RemoveDimensions(st, removed, k) ==
    IF k = 0 THEN st
    ELSE LET st1 == RemoveDimensions(st, removed, k - 1)
         IN IF st1.err # "none" THEN st1 ELSE remove_dimension(st1, removed[k])

----------------------------------------------------------------------------

(* Stage::rfactor *)

\* a pair (RVar, Var) of the preserved list
Preserved(r, v) == [v |-> v, r |-> r]

\* the two user_asserts on one pair of the preserved list
PreservedError(ds, p) ==
    LET i == FirstMatch(ds, p.r)
    IN IF i = 0 \/ ~is_rvar(ds[i]) THEN "NotInReductionDomain"
       ELSE IF FirstMatch(ds, p.v) # 0 THEN "NameCollision"
       ELSE "none"

\* the error of the first pair that fails its asserts, "none" when every pair passes
ValidatePreserved(ds, preserved) ==
    LET bad == {i \in 1..Len(preserved) : PreservedError(ds, preserved[i]) # "none"}
    IN IF bad = {} THEN "none"
       ELSE PreservedError(ds, preserved[CHOOSE i \in bad : \A j \in bad : i <= j])

\* is_rfactored, as the set of the indices it marks
IsRfactored(ds, preserved) == {FirstMatch(ds, preserved[i].r) : i \in 1..Len(preserved)}

\* last_rvar when the downward loop reaches index i: the nearest reduction dimension
\* outside i, 0 when there is none
LastRVar(ds, i) ==
    LET outer == {j \in (i + 1)..Len(ds) : is_rvar(ds[j])}
    IN IF outer = {} THEN 0 ELSE CHOOSE j \in outer : \A k \in outer : j <= k

\* the check with the loop nest read the other way round
KeepsOuterWithoutInner(ds, rf) ==
    \E i \in rf : \E j \in 1..(i - 1) : is_rvar(ds[j]) /\ j \notin rf

\* the check made for an operator that is not commutative fails
KeepsInnerWithoutOuter(ds, rf) ==
    \E i \in rf : LastRVar(ds, i) # 0 /\ LastRVar(ds, i) \notin rf

\* some pair of the preserved list names the reduction variable rv
IsPreserved(rv, preserved) ==
    \E i \in 1..Len(preserved) : var_name_match(rv, preserved[i].r)

\* the reduction variables of q that are preserved (keep) or are not (~keep), in order
RECURSIVE Filter(_, _, _)
Filter(q, preserved, keep) ==
    IF Len(q) = 0 THEN <<>>
    ELSE LET rest == Filter(SubSeq(q, 1, Len(q) - 1), preserved, keep)
             x == q[Len(q)]
         IN IF IsPreserved(x, preserved) = keep THEN Append(rest, x) ELSE rest

\* where the comparator of std::sort finds the reduction variable of the pair p
PreservedRank(rv, p) ==
    LET m == {i \in 1..Len(rv) : var_name_match(rv[i], p.r)}
    IN IF m = {} THEN Len(rv) + 1 ELSE CHOOSE i \in m : \A j \in m : i <= j

\* the preserved list in the order of the call
PreservedAsGiven(rv, preserved) == preserved

\* std::sort of the preserved list by that position
RECURSIVE SortPreserved(_, _)
SortPreserved(rv, preserved) ==
    IF Len(preserved) = 0 THEN <<>>
    ELSE LET m == CHOOSE i \in 1..Len(preserved) : \A j \in 1..Len(preserved) :
                     PreservedRank(rv, preserved[i]) <= PreservedRank(rv, preserved[j])
         IN <<preserved[m]>> \o SortPreserved(rv, RemoveAt(preserved, m))

\* std::find_if returns rvars.end() for some kept variable, and  iter->var  reads
\* past the end of the vector
KeptMissing(kept_rvars, sorted) ==
    \E k \in 1..Len(sorted) : PreservedRank(kept_rvars, sorted[k]) > Len(kept_rvars)

\* what the read past the end can do: name no variable of any expression, or end
\* the process
DerefOutcomes == {"NoSuchVar", "Crash"}

\* substitute(substitution_map, expr): every kept variable gives way to its Var
RECURSIVE SubstituteKept(_, _, _, _)
SubstituteKept(expr, kept_rvars, sorted, k) ==
    IF k = 0 THEN expr
    ELSE LET e == SubstituteKept(expr, kept_rvars, sorted, k - 1)
             i == PreservedRank(kept_rvars, sorted[k])
         IN IF i > Len(kept_rvars) THEN e
            ELSE SubstituteVars({kept_rvars[i]}, {<<sorted[k].v>>}, e)

\* the calls intm.update(0).purify(rvars_kept[i], vars_rename[i]) for i = 1..k
RECURSIVE PurifyKept(_, _, _)
PurifyKept(st, sorted, k) ==
    IF k = 0 THEN st
    ELSE LET st1 == PurifyKept(st, sorted, k - 1)
         IN IF st1.err # "none" THEN st1
            ELSE purify_op(st1, Handle(sorted[k].r, TRUE), Handle(sorted[k].v, FALSE))

\* the pure Vars of the init definition added to the dims list where none matches
RECURSIVE AddDimVars(_, _, _)
AddDimVars(ds, dim_vars, k) ==
    IF k = 0 THEN ds
    ELSE LET ds1 == AddDimVars(ds, dim_vars, k - 1)
         IN IF FirstMatch(ds1, dim_vars[k]) # 0 THEN ds1
            ELSE [j \in 1..(Len(ds1) + 1) |->
                     IF j < Len(ds1) THEN ds1[j]
                     ELSE IF j = Len(ds1) THEN Dim(<<dim_vars[k]>>, "Serial", "None", "PureVar")
                     ELSE ds1[Len(ds1)]]

\* a sequence of names as the sequence of the expressions that are these variables
AsExprs(names) == [i \in 1..Len(names) |-> {<<names[i]>>}]

\* the variables of a sequence
Range(q) == {q[i] : i \in 1..Len(q)}

\* the schedule of the intermediate as a second name for the vectors of the stage
ShareSchedule(ds, ss) == [dims |-> ds, splits |-> ss, owner |-> "stage"]

\* the schedule of the intermediate's update definition: the vectors are assigned
\* by value, to the definition that  Func intm(func_name + "_intm")  owns
CopySchedule(ds, ss) == [dims |-> ds, splits |-> ss, owner |-> "intm"]

\* the precondition with only its first assert
RfactorPreconditionUpdateOnly == IF is_init THEN "NotAnUpdate" ELSE "none"

\* the two asserts rfactor opens with: an update definition, a proved associativity
RfactorPrecondition ==
    IF is_init THEN "NotAnUpdate"
    ELSE IF ~assoc THEN "NotAssociative"
    ELSE "none"

\* The state rfactor works on: the schedule and the definition of the stage, the Func
\* it returns, and the error it ends with.
RfactorState == [dims |-> dims, splits |-> splits, fuse_var |-> fuse_var, defn |-> defn,
                 intm |-> intm, err |-> "none"]

\* Func Stage::rfactor(vector<pair<RVar, Var>> preserved)
rfactor_op(st, preserved, deref) ==
    IF RfactorPrecondition # "none" THEN [st EXCEPT !.err = RfactorPrecondition]
    ELSE IF ValidatePreserved(st.dims, preserved) # "none"
         THEN [st EXCEPT !.err = ValidatePreserved(st.dims, preserved)]
    ELSE IF ~comm /\ KeepsInnerWithoutOuter(st.dims, IsRfactored(st.dims, preserved))
         THEN [st EXCEPT !.err = "NonCommutativeOrderViolation"]
    ELSE
      LET d == st.defn
          ap == ApplySplits(st.splits, Len(st.splits),
                            Exprs(d.rvars, d.predicates, d.args, d.values))
          e == ap.e
          intm_rvars == Filter(e.rvars, preserved, FALSE)
          sorted == SortPreserved(e.rvars, preserved)
          vars_rename == [i \in 1..Len(sorted) |-> sorted[i].v]
          kept_rvars == Filter(e.rvars, preserved, TRUE)
          rvars_removed == intm_rvars
          Subst(x) == SubstituteKept(x, kept_rvars, sorted, Len(sorted))
          update_args == [i \in 1..Len(e.args) |-> Subst(e.args[i])] \o AsExprs(vars_rename)
          f_predicates == {q \in e.predicates : q \cap Range(intm_rvars) = {}}
          sch == CopySchedule(st.dims, ap.temp)
          pur == PurifyKept([dims |-> sch.dims, splits |-> sch.splits, err |-> "none"],
                            sorted, Len(sorted))
          new_intm == [dims |-> pur.dims,
                       splits |-> pur.splits,
                       args |-> update_args,
                       values |-> Values(FALSE, Subst(e.values.mentions)),
                       rvars |-> intm_rvars,
                       predicates |-> {Subst(q) : q \in e.predicates},
                       defined |-> TRUE,
                       owner |-> sch.owner,
                       init_args |-> d.dim_vars \o vars_rename,
                       init_values |-> "identity"]
          \* what the definition holds once the intermediate is built
          d1 == [d EXCEPT !.args = e.args, !.values = e.values, !.rvars = kept_rvars,
                          !.predicates = f_predicates]
          st1 == [st EXCEPT !.splits = ap.temp, !.defn = d1]
      IN IF KeptMissing(kept_rvars, sorted) /\ deref = "Crash"
         THEN [st1 EXCEPT !.err = "Crash"]
         ELSE IF pur.err # "none" THEN [st1 EXCEPT !.err = pur.err]
         ELSE LET st2 == [st1 EXCEPT !.dims = AddDimVars(@, d.dim_vars, Len(d.dim_vars))]
                  rm == RemoveDimensions([dims |-> st2.dims, splits |-> st2.splits,
                                          err |-> "none"],
                                         rvars_removed, Len(rvars_removed))
                  st3 == [st2 EXCEPT !.dims = rm.dims, !.splits = rm.splits]
              IN IF rm.err # "none" THEN [st3 EXCEPT !.err = rm.err]
                 ELSE [st3 EXCEPT
                         !.defn.args = AsExprs(d.dim_vars),
                         !.defn.values = Values(TRUE, Mentions(Range(d.dim_vars))
                                                        \cup Range(kept_rvars)),
                         !.intm = new_intm]

----------------------------------------------------------------------------

(* Initial states: a freshly defined stage *)

PureDim(n) == Dim(<<n>>, "Serial", "None", "PureVar")

InitCommon ==
    /\ splits = <<>>
    /\ allow_race = FALSE
    /\ atomic_flag = FALSE
    /\ override_flag = FALSE
    /\ fuse_var = ""
    /\ last = Call("define", "none", <<>>, "", NoFactor, "")
    /\ pre = [dims |-> dims, splits |-> <<>>, fuse_var |-> "", defn |-> defn,
              intm |-> NoIntm, specializations |-> <<>>]
    /\ intm = NoIntm
    /\ specializations = <<>>
    /\ cache = NoCache
    /\ pure_fuse_var = ""

\* a pure definition f(x, y) = ...
InitPure ==
    /\ def_kind = "init"
    /\ assoc = FALSE
    /\ comm = FALSE
    /\ dims = <<PureDim("x"), PureDim("y"), PureDim("__outermost")>>
    /\ defn = Definition(<<"x", "y">>, <<Mentions({"x"}), Mentions({"y"})>>,
                         Values(FALSE, Mentions({"x", "y"})), <<>>, {})
    /\ InitCommon

\* an extern definition: every loop is marked Extern
InitExtern ==
    /\ def_kind = "extern"
    /\ assoc = FALSE
    /\ comm = FALSE
    /\ dims = <<Dim(<<"x">>, "Extern", "None", "PureVar"),
                Dim(<<"y">>, "Extern", "None", "PureVar"),
                Dim(<<"__outermost">>, "Extern", "None", "PureVar")>>
    /\ defn = Definition(<<"x", "y">>, <<Mentions({"x"}), Mentions({"y"})>>,
                         Values(FALSE, {}), <<>>, {})
    /\ InitCommon

\* an update definition f(x) = op(f(x), g(x, r, s)) over the reduction domain (r, s)
InitUpdate ==
    /\ def_kind = "update"
    /\ assoc \in BOOLEAN
    /\ comm \in BOOLEAN
    /\ \E kr \in {"PureRVar", "ImpureRVar"}, ks \in {"PureRVar", "ImpureRVar"} :
          dims = <<Dim(<<"r">>, "Serial", "None", kr),
                   Dim(<<"s">>, "Serial", "None", ks),
                   PureDim("x"), PureDim("__outermost")>>
    /\ defn = Definition(<<"x">>, <<Mentions({"x"})>>,
                         Values(FALSE, Mentions({"x", "r", "s"})),
                         <<<<"r">>, <<"s">>>>, {Mentions({"r"})})
    /\ InitCommon

Init ==
    /\ InitPure \/ InitExtern \/ InitUpdate
    /\ left = MaxCalls
    /\ prior = Untracked

----------------------------------------------------------------------------
(* Tagging directives on an update definition *)

TagHandles ==
    {Handle("r", TRUE), Handle("s", TRUE), Handle("x", FALSE), Handle("r", FALSE),
     Handle("q", TRUE)}

TagTypes == {"Serial", "Parallel", "Vectorized", "Unrolled"}

NextTag ==
    \/ AllowRaceConditions
    \/ \E o \in BOOLEAN : Atomic(o)
    \/ \E h \in TagHandles, t \in TagTypes : SetDimType(h, t)

InitTag == InitUpdate /\ left = MaxTagCalls /\ prior = Untracked

SpecTag == InitTag /\ [][NextTag]_vars

----------------------------------------------------------------------------
(* Every directive, on any definition *)

V(n) == Handle(n, FALSE)

R(n) == Handle(n, TRUE)

TagStep ==
    \/ AllowRaceConditions
    \/ \E o \in BOOLEAN : Atomic(o)
    \/ \E h \in {V("x"), R("r"), V("r"), V("a")}, t \in TagTypes : SetDimType(h, t)
    \/ \E h \in {V("x"), R("r")} : GpuThreads(h, "Default_GPU")

SplitDirective ==
    \E old \in {V("x"), V("a"), R("r")}, tl \in {"Auto", "RoundUp", "ShiftInwards"} :
        \E nn \in {<<"a", "b">>, <<"a", "a">>, <<old.name, "i">>} :
            Split(old, Handle(nn[1], old.is_rvar), Handle(nn[2], old.is_rvar),
                  Factor(2), tl)

FuseDirective ==
    \E a \in {<<V("x"), V("y"), V("a")>>, <<V("x"), V("y"), V("y")>>,
              <<V("y"), V("x"), V("__outermost")>>, <<V("x"), V("x"), V("a")>>,
              <<R("r"), R("s"), R("a")>>, <<R("s"), R("r"), R("a")>>,
              <<V("x"), V("r"), V("a")>>, <<R("r"), V("x"), R("a")>>} :
        Fuse(a[1], a[2], a[3])

RenameDirective ==
    \E a \in {<<V("x"), V("a")>>, <<V("x"), V("y")>>, <<V("a"), V("b")>>,
              <<V("y"), V("a")>>, <<R("r"), R("a")>>, <<R("r"), R("s")>>} :
        Rename(a[1], a[2])

PurifyDirective ==
    \E a \in {<<R("r"), V("a")>>, <<R("r"), V("x")>>, <<R("s"), V("a")>>} :
        Purify(a[1], a[2])

ReorderLists ==
    {<<V("y"), V("x")>>, <<V("x"), V("y")>>, <<V("y"), V("x"), V("x")>>,
     <<V("__outermost"), V("x")>>, <<V("__outermost"), V("y"), V("x")>>,
     <<V("a"), V("y")>>, <<V("y"), V("b"), V("a")>>, <<V("q"), V("x")>>,
     <<R("s"), R("r")>>, <<R("r"), R("s")>>, <<V("x"), R("r")>>,
     <<V("x"), R("s"), R("r")>>}

ReorderDirective == \E vs \in ReorderLists : Reorder(vs)

TileDirective ==
    \/ \E tl \in {"Auto", "ShiftInwards"} :
          Tile(V("x"), V("y"), V("a"), V("c"), V("b"), V("d"), Factor(2), Factor(4), tl)
    \/ Tile(R("r"), R("s"), R("a"), R("c"), R("b"), R("d"), Factor(2), Factor(4), "Auto")

ComputeWithDirective == \E v \in {V("x"), V("y")} : ComputeWith(v)

Next ==
    \/ TagStep
    \/ SplitDirective
    \/ FuseDirective
    \/ RenameDirective
    \/ PurifyDirective
    \/ ReorderDirective
    \/ TileDirective
    \/ ComputeWithDirective

Spec == Init /\ [][Next]_vars

----------------------------------------------------------------------------
(* Splitting *)

TailStrategies == {"Auto", "RoundUp", "GuardWithIf", "ShiftInwards"}

SplitFactors == {Factor(2), Factor(4)}

SplitOlds == {Handle("x", FALSE), Handle("a", FALSE), Handle("d", FALSE),
              Handle("e", FALSE), Handle("r", TRUE)}

\* (outer, inner) names of a split of old; the last pair keeps old as the outer name,
\* as vectorize(var, factor) and tile(x, y, xi, yi, ...) do
SplitNews(old) == {<<"a", "b">>, <<"c", "d">>, <<old, "i">>}

SplitStep ==
    \E old \in SplitOlds, f \in SplitFactors, tl \in TailStrategies :
        \E nn \in SplitNews(old.name) :
            Split(old, Handle(nn[1], old.is_rvar), Handle(nn[2], old.is_rvar), f, tl)

\* the other directives that write the history, each giving a name that ends in e
DeriveStep ==
    \/ \E old \in {Handle("a", FALSE), Handle("d", FALSE)} :
          Rename(old, Handle("e", FALSE))
    \/ \E io \in {<<"d", "c">>, <<"a", "y">>} :
          Fuse(Handle(io[1], FALSE), Handle(io[2], FALSE), Handle("e", FALSE))
    \/ \E old \in {Handle("r", TRUE), Handle("d", TRUE)} :
          Purify(old, Handle("e", FALSE))

NextSplit == SplitStep \/ DeriveStep

InitSplit ==
    /\ InitPure \/ InitExtern \/ InitUpdate
    /\ assoc = FALSE /\ comm = FALSE
    /\ \A i \in 1..Len(dims) : dims[i].dim_type # "ImpureRVar"
    /\ left = MaxSplitCalls
    /\ prior = Untracked

SpecSplit == InitSplit /\ [][NextSplit]_vars

----------------------------------------------------------------------------
(* Factoring a reduction *)

\* the preserved list as the handles the call record keeps
PreservedHandles(preserved) ==
    [i \in 1..(2 * Len(preserved)) |->
        IF i % 2 = 1 THEN Handle(preserved[(i + 1) \div 2].r, TRUE)
        ELSE Handle(preserved[i \div 2].v, FALSE)]

Rfactor(preserved) ==
    \E deref \in DerefOutcomes :
    LET r == rfactor_op(RfactorState, preserved, deref)
    IN /\ left > 0
       /\ dims' = r.dims
       /\ splits' = r.splits
       /\ defn' = r.defn
       /\ intm' = r.intm
       /\ last' = Call("rfactor", r.err, PreservedHandles(preserved), "", NoFactor, "")
       /\ pre' = Snapshot
       /\ prior' = Prior
       /\ left' = IF r.err = "Crash" THEN 0 ELSE left - 1
       /\ UNCHANGED <<def_kind, assoc, comm, allow_race, atomic_flag, override_flag,
                      fuse_var, specializations, cache, pure_fuse_var>>

\* the schedule of the update definition of the Func that rfactor returned
IntmSched == [dims |-> intm.dims, splits |-> intm.splits, fuse_var |-> "", err |-> "none"]

\* a directive on intm.update(0) that takes its schedule to r: the write reaches the
\* definition that owns the vectors
IntmDirective(r, call) ==
    /\ left > 0
    /\ intm.defined
    /\ intm' = [intm EXCEPT !.dims = r.dims, !.splits = r.splits]
    /\ dims' = IF intm.owner = "stage" THEN r.dims ELSE dims
    /\ splits' = IF intm.owner = "stage" THEN r.splits ELSE splits
    /\ last' = call
    /\ pre' = Snapshot
    /\ prior' = Prior
    /\ left' = left - 1
    /\ UNCHANGED <<def_kind, assoc, comm, allow_race, atomic_flag, override_flag,
                   fuse_var, defn, specializations, cache, pure_fuse_var>>

\* split, rename, fuse, purify, reorder and a tag on the intermediate
IntmStep ==
    \/ \E old \in {V("x"), V("u"), R("r")} :
          LET r == split_op(IntmSched, old, Handle("a", old.is_rvar),
                            Handle("b", old.is_rvar), Factor(2), "Auto")
          IN IntmDirective(r, Call("intm.split", r.err,
                                   <<old, Handle("a", old.is_rvar), Handle("b", old.is_rvar)>>,
                                   "", Factor(2), "Auto"))
    \/ \E old \in {V("x"), V("u")} :
          LET r == rename_op(IntmSched, old, V("w"))
          IN IntmDirective(r, Call("intm.rename", r.err, <<old, V("w")>>, "", NoFactor, ""))
    \/ LET r == fuse_op(IntmSched, V("x"), V("u"), V("f"))
       IN IntmDirective(r, Call("intm.fuse", r.err, <<V("x"), V("u"), V("f")>>, "", NoFactor, ""))
    \/ LET r == purify_op(IntmSched, R("r"), V("w"))
       IN IntmDirective(r, Call("intm.purify", r.err, <<R("r"), V("w")>>, "", NoFactor, ""))
    \/ \E vs \in {<<V("x"), V("u")>>, <<V("u"), V("x")>>} :
          LET r == reorder_op(IntmSched, vs)
          IN IntmDirective(r, Call("intm.reorder", r.err, vs, "", NoFactor, ""))
    \/ \E h \in {V("u"), V("x")} :
          LET r == set_dim_type(intm.dims, h, "Parallel")
          IN IntmDirective([IntmSched EXCEPT !.dims = r.dims, !.err = r.err],
                           Call("intm.set_dim_type", r.err, <<h>>, "Parallel", NoFactor, ""))

RfactorLists ==
    {<<>>, <<Preserved("r", "u")>>, <<Preserved("s", "u")>>,
     <<Preserved("r", "u"), Preserved("s", "v")>>,
     <<Preserved("s", "u"), Preserved("r", "v")>>,
     <<Preserved("a", "u")>>, <<Preserved("b", "u")>>,
     <<Preserved("x", "u")>>, <<Preserved("s", "x")>>, <<Preserved("q", "u")>>}

RfactorStep == \E preserved \in RfactorLists : Rfactor(preserved)

\* the directives applied to the stage before and after it is factored
StageStep ==
    \/ \E tl \in {"Auto", "RoundUp"} : Split(R("r"), R("a"), R("b"), Factor(2), tl)
    \/ Split(V("x"), V("a"), V("b"), Factor(2), "Auto")
    \/ Fuse(R("r"), R("s"), R("f"))
    \/ Rename(R("s"), R("t"))
    \/ Purify(R("s"), V("w"))
    \/ \E vs \in {<<R("s"), R("r")>>, <<R("s"), R("r"), R("r")>>, <<V("x"), R("s")>>} :
          Reorder(vs)
    \/ \E h \in {R("s"), V("x")} : SetDimType(h, "Parallel")

NextRfactor == StageStep \/ RfactorStep \/ IntmStep

\* an update definition f(x) = op(f(x), g(x, r, s)) or f(x + r) = op(f(x + r), g(s)),
\* or a pure definition
InitRfactor ==
    /\ \/ /\ InitUpdate
          /\ \A i \in 1..Len(dims) : dims[i].dim_type # "ImpureRVar"
       \/ /\ def_kind = "update"
          /\ assoc \in BOOLEAN
          /\ comm \in BOOLEAN
          /\ dims = <<Dim(<<"r">>, "Serial", "None", "ImpureRVar"),
                      Dim(<<"s">>, "Serial", "None", "ImpureRVar"),
                      PureDim("x"), PureDim("__outermost")>>
          /\ defn = Definition(<<"x">>, <<Mentions({"x", "r"})>>,
                               Values(FALSE, Mentions({"x", "r", "s"})),
                               <<<<"r">>, <<"s">>>>, {Mentions({"r"}), Mentions({"s"})})
          /\ InitCommon
       \/ InitPure
    /\ left = MaxRfactorCalls
    /\ prior = Untracked

SpecRfactor == InitRfactor /\ [][NextRfactor]_vars

----------------------------------------------------------------------------
(* compute_with and the specializations of a stage *)

\* two boolean parameters, the constant true, an integer parameter and x == 0
Conditions ==
    {Condition("bool", "", "p"), Condition("bool", "", "q"), const_true,
     Condition("int", "", "n"), Condition("bool", "x", "x == 0")}

Messages == {"", "unsupported"}

SpecializeStep == \E condition \in Conditions : Specialize(condition)

SpecializeFailStep == \E message \in Messages : SpecializeFail(message)

NextSpecialize == ComputeWithDirective \/ SpecializeStep \/ SpecializeFailStep

InitSpecialize ==
    /\ InitPure \/ InitExtern \/ InitUpdate
    /\ left = MaxSpecializeCalls
    /\ prior = Untracked

SpecSpecialize == InitSpecialize /\ [][NextSpecialize]_vars

----------------------------------------------------------------------------
(* The compiled pipeline of the Func and the handles that reach the stage *)

\* what a compilation reads of the stage
ScheduleNow ==
    <<dims, splits, allow_race, atomic_flag, override_flag, fuse_var, specializations>>

\* Pipeline::realize compiled the schedule sched and keeps the result
Compiled(sched) == [compiled |-> TRUE, schedule |-> sched]

\* Func::invalidate_cache, called first by every scheduling method of Func
invalidate_cache == NoCache

\* a method of Func that leaves cache to c and the schedule alone
FuncCall(call, c) ==
    /\ left > 0
    /\ cache' = c
    /\ last' = call
    /\ pre' = Snapshot
    /\ prior' = Prior
    /\ left' = left - 1
    /\ UNCHANGED <<def_kind, assoc, comm, dims, splits, allow_race, atomic_flag,
                   override_flag, fuse_var, defn, intm, specializations, pure_fuse_var>>

\* Func::realize: pipeline().realize(...) compiles unless a compiled artifact is kept
Realize ==
    FuncCall(Call("realize", "none", <<>>, "", NoFactor, ""),
             IF cache.compiled THEN cache ELSE Compiled(ScheduleNow))

num_update_definitions == IF def_kind = "update" THEN 1 ELSE 0

\* Func::update(idx): another handle to the update stage
Update(idx) ==
    IF idx < num_update_definitions
    THEN FuncCall(Call("update", "none", <<>>, "", NoFactor, ""), invalidate_cache)
    ELSE FuncCall(Call("update", "NoSuchUpdate", <<>>, "", NoFactor, ""), cache)

\* Func::operator Stage: another handle to the stage of the pure definition
ConvertToStage ==
    /\ def_kind # "update"
    /\ FuncCall(Call("operator Stage",
                     IF def_kind = "extern" THEN "ExternToStage" ELSE "none",
                     <<>>, "", NoFactor, ""),
                cache)

\* a scheduling method of Func: invalidate_cache(), then the directive on
\* Stage(func, func.definition(), 0)
FuncDirective(r, call) ==
    /\ def_kind # "update"
    /\ StageWrite(r, call)
    /\ cache' = invalidate_cache

FuncSplit(old, outer, inner, factor, tail) ==
    LET r == split_op(Sched, old, outer, inner, factor, tail)
    IN FuncDirective(r, Call("Func::split", r.err, <<old, outer, inner>>, "", factor, tail))

FuncRename(old_var, new_var) ==
    LET r == rename_op(Sched, old_var, new_var)
    IN FuncDirective(r, Call("Func::rename", r.err, <<old_var, new_var>>, "", NoFactor, ""))

FuncReorder(vs) ==
    LET r == reorder_op(Sched, vs)
    IN FuncDirective(r, Call("Func::reorder", r.err, vs, "", NoFactor, ""))

\* Func::parallel(var)
FuncSetDimType(var, t) ==
    LET r == set_dim_type(dims, var, t)
    IN FuncDirective([Sched EXCEPT !.dims = r.dims, !.err = r.err],
                     Call("Func::set_dim_type", r.err, <<var>>, t, NoFactor, ""))

\* directives through the Func
FuncStep ==
    \/ FuncSplit(V("x"), V("a"), V("b"), Factor(2), "Auto")
    \/ \E old \in {V("x"), V("a")} : FuncRename(old, V("w"))
    \/ FuncReorder(<<V("y"), V("x")>>)
    \/ FuncSetDimType(V("x"), "Parallel")

\* directives through a Stage that the caller holds: Func::update(0) returned it for
\* an update definition, the conversion for a pure one; an extern Func gives none
HeldStageStep ==
    /\ def_kind # "extern"
    /\ \/ Split(V("x"), V("a"), V("b"), Factor(2), "Auto")
       \/ \E old \in {V("x"), V("a")} : Rename(old, V("w"))
       \/ Reorder(<<V("y"), V("x")>>)
       \/ SetDimType(V("x"), "Parallel")
       \/ Specialize(Condition("bool", "", "p"))

HandleStep == ConvertToStage \/ \E idx \in {0, 1} : Update(idx)

NextCache == Realize \/ HandleStep \/ FuncStep \/ HeldStageStep

InitCache ==
    /\ InitPure \/ InitExtern \/ InitUpdate
    /\ left = MaxCacheCalls
    /\ prior = Untracked

SpecCache == InitCache /\ [][NextCache]_vars

----------------------------------------------------------------------------
(* A split undone by a fuse *)

InverseNews == {<<"a", "b">>, <<"c", "d">>}

InverseOlds == {V("x"), V("y"), V("a")}

InverseSplitStep ==
    \E old \in InverseOlds, nn \in InverseNews, tl \in {"Auto", "GuardWithIf"} :
        Split(old, V(nn[1]), V(nn[2]), Factor(2), tl)

\* fuse(vi, vo, v)
InverseFuseStep ==
    \E fused \in InverseOlds, nn \in InverseNews : Fuse(V(nn[2]), V(nn[1]), fused)

\* what the split dimension carries: an iteration strategy, a device placement; and
\* a rename that gives a name to a second dimension
InverseTagStep ==
    \/ \E t \in {"Parallel", "Vectorized"} : SetDimType(V("x"), t)
    \/ GpuThreads(V("y"), "Default_GPU")
    \/ Rename(V("x"), V("y"))

NextInverse == InverseSplitStep \/ InverseFuseStep \/ InverseTagStep

InitInverse ==
    /\ InitPure \/ InitExtern \/ InitUpdate
    /\ left = MaxInverseCalls
    /\ prior = Tracked(last, pre)

SpecInverse == InitInverse /\ [][NextInverse]_vars

----------------------------------------------------------------------------
(* Removing a dimension *)

\* the full names a removal may be asked for: those of the dimensions, those the
\* history mentions, and one that was never given
RemoveNames ==
    {dims[i].var : i \in 1..Len(dims)}
        \cup UNION {{splits[k].old_var, splits[k].outer, splits[k].inner} :
                       k \in 1..Len(splits)}
        \cup {<<"q">>}

\* remove_dimension(stage, definition, var), as rfactor calls it for one variable
RemoveDimension(var) ==
    LET r == remove_dimension(Sched, var)
    IN Directive(r, Call("remove_dimension", r.err, <<var>>, "", NoFactor, ""))

RemoveStep == \E var \in RemoveNames : RemoveDimension(var)

\* the directives that write the history the removal walks
RemoveHistoryStep ==
    \/ \E old \in {V("x"), R("r"), R("a")} :
          Split(old, Handle("a", old.is_rvar), Handle("b", old.is_rvar), Factor(2), "Auto")
    \/ \E io \in {<<R("r"), R("s")>>, <<R("b"), R("a")>>, <<R("b"), R("s")>>} :
          Fuse(io[1], io[2], R("f"))
    \/ \E on \in {<<R("r"), R("t")>>, <<R("f"), R("t")>>, <<R("b"), R("t")>>} :
          Rename(on[1], on[2])
    \/ \E on \in {<<R("r"), V("w")>>, <<R("s"), V("r")>>, <<R("a"), V("w")>>} :
          Purify(on[1], on[2])

NextRemove == RemoveHistoryStep \/ RemoveStep

InitRemove ==
    /\ InitPure \/ InitUpdate
    /\ left = MaxRemoveCalls
    /\ prior = Untracked

SpecRemove == InitRemove /\ [][NextRemove]_vars

----------------------------------------------------------------------------
(* A fuse level and the reorders that follow it *)

\* compute_with at a loop of the other Func named as a dimension of the stage, or not
FuseLevelStep == \E v \in {V("x"), V("y"), V("z")} : ComputeWith(v)

FuseLevelReorderStep ==
    \E vs \in {<<V("y"), V("x")>>, <<V("x"), V("y")>>, <<V("__outermost"), V("x")>>,
               <<V("a"), V("y")>>, <<V("y"), V("b"), V("a")>>, <<V("y"), V("x"), V("x")>>,
               <<V("x"), R("r")>>, <<R("s"), R("r")>>} :
        Reorder(vs)

\* the directives that give qualified names to the dimensions around the fuse level
FuseLevelSplitStep ==
    \/ \E old \in {V("x"), V("y")} : Split(old, V("a"), V("b"), Factor(2), "Auto")
    \/ Rename(V("y"), V("a"))

NextFuseLevel == FuseLevelStep \/ FuseLevelReorderStep \/ FuseLevelSplitStep

InitFuseLevel ==
    /\ InitPure \/ InitUpdate
    /\ left = MaxFuseLevelCalls
    /\ prior = Untracked

SpecFuseLevel == InitFuseLevel /\ [][NextFuseLevel]_vars

----------------------------------------------------------------------------
(* Tagging, with and without a factor *)

FactorTagTypes == {"Parallel", "Vectorized", "Unrolled"}

TagWithFactorStep ==
    \E h \in {R("r"), R("s"), V("x"), V("r")}, t \in FactorTagTypes,
       tl \in {"Auto", "RoundUp"} :
        TagWithFactor(h, Factor(2), tl, t)

NextTagWithFactor ==
    \/ AllowRaceConditions
    \/ \E o \in BOOLEAN : Atomic(o)
    \/ \E h \in {R("r"), V("x"), R("q")}, t \in FactorTagTypes : SetDimType(h, t)
    \/ TagWithFactorStep

InitTagWithFactor ==
    /\ InitUpdate \/ InitPure
    /\ left = MaxTagWithFactorCalls
    /\ prior = Untracked

SpecTagWithFactor == InitTagWithFactor /\ [][NextTagWithFactor]_vars

----------------------------------------------------------------------------
(* The two handles to a definition and the fuse level they reach *)

\* the Stage that the defining assignment returned, and the one that Func::update(0)
\* or the conversion of the Func returns
StageHandles == {"assignment", "accessor"}

\* stage_index of the handle: the assignment gives updates().size() - 1 to the Stage of
\* an update definition, Func::update(idx) gives idx + 1; both give 0 to the pure one
stage_index(handle) ==
    IF def_kind = "update" THEN (IF handle = "assignment" THEN 0 ELSE 1) ELSE 0

\* original_def is the definition that the handle scheduled
ReachesOwnDefinition(handle) ==
    stage_index(handle) = (IF def_kind = "update" THEN 1 ELSE 0)

\* the fuse level of original_def
FuseVarOf(handle) == IF ReachesOwnDefinition(handle) THEN fuse_var ELSE pure_fuse_var

\* a directive through the handle: dims and splits are those of the handle's own
\* definition, the fuse level is that of original_def
HandleWrite(handle, r, call) ==
    /\ left > 0
    /\ dims' = r.dims
    /\ splits' = r.splits
    /\ fuse_var' = IF ReachesOwnDefinition(handle) THEN r.fuse_var ELSE fuse_var
    /\ pure_fuse_var' = IF ReachesOwnDefinition(handle) THEN pure_fuse_var ELSE r.fuse_var
    /\ last' = call
    /\ pre' = Snapshot
    /\ prior' = Prior
    /\ left' = left - 1
    /\ UNCHANGED <<def_kind, assoc, comm, allow_race, atomic_flag, override_flag,
                   defn, intm, specializations, cache>>

HandleSched(handle) ==
    [dims |-> dims, splits |-> splits, fuse_var |-> FuseVarOf(handle), err |-> "none"]

\* Stage::compute_with through the handle; the pure definition has no specializations
ComputeWithVia(handle, var) ==
    LET st == HandleSched(handle)
        r == IF def_kind = "extern"
             THEN [st EXCEPT !.err = "ComputeWithExtern"]
             ELSE IF ReachesOwnDefinition(handle) /\ specializations # <<>>
             THEN [st EXCEPT !.err = "ComputeWithSpecializations"]
             ELSE [st EXCEPT !.fuse_var = var.name]
    IN HandleWrite(handle, r, Call("compute_with", r.err, <<var>>, handle, NoFactor, ""))

\* Stage::reorder through the handle
ReorderVia(handle, vs) ==
    LET r == reorder_op(HandleSched(handle), vs)
    IN HandleWrite(handle, r, Call("reorder", r.err, vs, handle, NoFactor, ""))

HandleComputeWithStep ==
    \E handle \in StageHandles, v \in {V("x"), V("r")} : ComputeWithVia(handle, v)

HandleReorderStep ==
    \E handle \in StageHandles :
        \E vs \in {<<V("y"), V("x")>>, <<V("__outermost"), V("x")>>, <<V("x"), R("r")>>,
                   <<R("s"), R("r")>>} :
            ReorderVia(handle, vs)

NextHandles == HandleComputeWithStep \/ HandleReorderStep

InitHandles ==
    /\ InitPure \/ InitUpdate
    /\ left = MaxHandleCalls
    /\ prior = Untracked

SpecHandles == InitHandles /\ [][NextHandles]_vars

----------------------------------------------------------------------------
(* Properties of set_dim_type *)

LastIsTag == last.op = "set_dim_type"

\* indices of pre.dims that the tagged handle names
TaggedIdx == {i \in 1..Len(pre.dims) : var_name_match(pre.dims[i].var, last.hs[1].name)}

\* indices of other dimensions that were already Vectorized when the call began
OtherVectorizedIdx ==
    {j \in 1..Len(pre.dims) : j \notin TaggedIdx /\ pre.dims[j].for_type = "Vectorized"}

EscapeHatch == allow_race \/ (atomic_flag /\ (override_flag \/ assoc))

\* the call tags an ImpureRVar dimension Parallel or Vectorized through an RVar handle
RaceGateCase ==
    /\ LastIsTag
    /\ last.hs[1].is_rvar
    /\ last.t \in {"Parallel", "Vectorized"}
    /\ \E i \in TaggedIdx : pre.dims[i].dim_type = "ImpureRVar"

RaceGateVerdict ==
    /\ (last.err = "none") <=> EscapeHatch
    /\ (~allow_race /\ ~atomic_flag) => last.err = "RaceConditionError"

\* C1 as stated: tagging an ImpureRVar dimension Parallel or Vectorized through an
\* RVar handle completes without error exactly when allow_race_conditions is set, or
\* atomic is set and the test is overridden or the prover certifies associativity;
\* with neither flag set it fails with RaceConditionError.
C1_RaceGateAsStated == RaceGateCase => RaceGateVerdict

\* C1 amended: the same, for Parallel, and for Vectorized when no other dimension of
\* the stage is already Vectorized (otherwise the call is rejected whatever the flags).
C1_RaceGate ==
    (RaceGateCase /\ (last.t = "Vectorized" => OtherVectorizedIdx = {})) => RaceGateVerdict

\* atomic() without override, prover certifies associativity, parallel(r) on an
\* impure r succeeds
C1_Witness ==
    /\ RaceGateCase
    /\ last.t = "Parallel"
    /\ atomic_flag /\ ~override_flag /\ ~allow_race /\ assoc
    /\ last.err = "none"

VectorizeClashCase ==
    /\ LastIsTag
    /\ last.t = "Vectorized"
    /\ OtherVectorizedIdx # {}

\* C2 as stated: vectorizing while another dimension is already Vectorized is
\* rejected with MultipleVectorization, whatever the kinds and the race flags.
C2_MultipleVectorizationAsStated ==
    VectorizeClashCase => last.err = "MultipleVectorization"

Min(S) == CHOOSE m \in S : \A n \in S : m <= n

\* the race gate rejects a tagged dimension that lies before the first other
\* Vectorized dimension
GateRejectsFirst ==
    /\ last.hs[1].is_rvar
    /\ ~EscapeHatch
    /\ \E i \in TaggedIdx : i < Min(OtherVectorizedIdx) /\ pre.dims[i].dim_type = "ImpureRVar"

\* C2 amended: vectorizing while another dimension is already Vectorized is always
\* rejected, whatever the kinds and the race flags; the error is
\* MultipleVectorization unless the race gate rejects a tagged dimension that lies
\* before the Vectorized one, and then it is the race gate's error.
C2_MultipleVectorization ==
    VectorizeClashCase =>
        IF GateRejectsFirst
        THEN last.err \in {"RaceConditionError", "AtomicNotAssociative"}
        ELSE last.err = "MultipleVectorization"

\* vectorize(r) on an impure r is rejected with MultipleVectorization although
\* allow_race_conditions is set, because x is already Vectorized
C2_Witness ==
    /\ VectorizeClashCase
    /\ RaceGateCase
    /\ allow_race
    /\ last.err = "MultipleVectorization"

----------------------------------------------------------------------------
(* Properties of the Dimension List's names *)

\* C3: in every reachable state the names in the Dimension List are pairwise distinct.
C3_NamesUnique ==
    \A i \in 1..Len(dims) : \A j \in 1..Len(dims) :
        i # j => dims[i].var # dims[j].var

NameTaken(n) == \E i \in 1..Len(pre.dims) : var_name_match(pre.dims[i].var, n)

HandlesAgree == \A i \in 1..Len(last.hs) : last.hs[i].is_rvar = last.hs[1].is_rvar

\* the last call introduces a name that an existing dimension already matches and that
\* is not the name of a dimension the call replaces; its handles are consistent and
\* the dimensions it replaces exist
IntroducesTakenName ==
    \/ /\ last.op = "split"
       /\ HandlesAgree
       /\ NameTaken(last.hs[1].name)
       /\ \E k \in {2, 3} : NameTaken(last.hs[k].name) /\ last.hs[k].name # last.hs[1].name
    \/ /\ last.op = "fuse"
       /\ HandlesAgree
       /\ NameTaken(last.hs[1].name) /\ NameTaken(last.hs[2].name)
       /\ last.hs[1].name # last.hs[2].name
       /\ NameTaken(last.hs[3].name)
       /\ last.hs[3].name \notin {last.hs[1].name, last.hs[2].name}
    \/ /\ last.op = "rename"
       /\ HandlesAgree
       /\ NameTaken(last.hs[1].name)
       /\ NameTaken(last.hs[2].name) /\ last.hs[2].name # last.hs[1].name
    \/ /\ last.op = "purify"
       /\ last.hs[1].is_rvar /\ ~last.hs[2].is_rvar
       /\ NameTaken(last.hs[1].name)
       /\ NameTaken(last.hs[2].name) /\ last.hs[2].name # last.hs[1].name

\* C4: split, fuse, rename and purify fail with NameCollision when a name they
\* introduce already matches an existing dimension, unless it is the name of the
\* dimension being replaced.
C4_NameCollision == IntroducesTakenName => last.err = "NameCollision"

----------------------------------------------------------------------------
(* Properties of split *)

SplitDone == last.op = "split" /\ last.err = "none"

SplitIdx == FirstMatch(pre.dims, last.hs[1].name)

NewEntry == splits[Len(splits)]

\* C5: a successful split(old, outer, inner, factor) of the dimension at index i puts
\* old.inner at i and old.outer at i + 1, leaves every other entry as it was and in
\* order, gives both the kind, iteration strategy and device placement of old (the
\* outer one Serial when old was Extern), and appends exactly one Split entry naming
\* old, outer, inner, the factor, exact and the resolved tail.
C5_SplitPostcondition ==
    SplitDone =>
        LET i == SplitIdx
            n == Len(pre.dims)
            d == pre.dims[i]
        IN /\ i # 0
           /\ Len(dims) = n + 1
           /\ \A j \in 1..(i - 1) : dims[j] = pre.dims[j]
           /\ \A j \in (i + 1)..n : dims[j + 1] = pre.dims[j]
           /\ dims[i] = [d EXCEPT !.var = Append(d.var, last.hs[3].name)]
           /\ dims[i + 1].var = Append(d.var, last.hs[2].name)
           /\ dims[i + 1].dim_type = d.dim_type
           /\ dims[i + 1].device_api = d.device_api
           /\ dims[i + 1].for_type = (IF d.for_type = "Extern" THEN "Serial" ELSE d.for_type)
           /\ Len(splits) = Len(pre.splits) + 1
           /\ \A k \in 1..Len(pre.splits) : splits[k] = pre.splits[k]
           /\ NewEntry.split_type = "SplitVar"
           /\ NewEntry.old_var = d.var
           /\ NewEntry.outer = dims[i + 1].var
           /\ NewEntry.inner = dims[i].var
           /\ NewEntry.factor = last.factor
           /\ NewEntry.exact = last.hs[1].is_rvar
           /\ NewEntry.tail \in {"RoundUp", "GuardWithIf", "ShiftInwards"}
           /\ last.tail # "Auto" => NewEntry.tail = last.tail

\* an Extern loop, not the innermost one, has been split: its outer half is Serial
C5_Witness ==
    /\ SplitDone
    /\ SplitIdx > 1
    /\ pre.dims[SplitIdx].for_type = "Extern"
    /\ dims[SplitIdx].for_type = "Extern"
    /\ dims[SplitIdx + 1].for_type = "Serial"

Results(s) == IF is_split(s) THEN {s.inner, s.outer}
              ELSE IF is_fuse(s) THEN {s.old_var}
              ELSE {s.outer}

Operands(s) == IF is_fuse(s) THEN {s.inner, s.outer} ELSE {s.old_var}

\* n descends, through the first k entries of the history ss, from the inner result
\* of a split
RECURSIVE FromInner(_, _, _)
FromInner(ss, n, k) ==
    \E j \in 1..k :
        \/ is_split(ss[j]) /\ n = ss[j].inner
        \/ n \in Results(ss[j]) /\ \E o \in Operands(ss[j]) : FromInner(ss, o, j - 1)

\* n is anc, or descends from anc through the first k entries of the history ss
RECURSIVE DescendsFrom(_, _, _, _)
DescendsFrom(ss, n, anc, k) ==
    \/ n = anc
    \/ \E j \in 1..k :
          n \in Results(ss[j]) /\ \E o \in Operands(ss[j]) : DescendsFrom(ss, o, anc, j - 1)

\* The factor that the first k entries of ss hand down to n from a ShiftInwards
\* split, NoFactor when there is none: a ShiftInwards split hands its own factor to
\* its outer result and nothing to its inner result; any other split hands what its
\* old variable holds to both results, a rename or purify to its one result, a fuse
\* nothing.
RECURSIVE HandedDown(_, _, _)
HandedDown(ss, n, k) ==
    IF k = 0 THEN NoFactor
    ELSE LET s == ss[k]
             up == HandedDown(ss, s.old_var, k - 1)
         IN IF is_split(s) /\ s.tail = "ShiftInwards"
            THEN IF n = s.outer THEN s.factor ELSE HandedDown(ss, n, k - 1)
            ELSE IF ~is_fuse(s) /\ n \in Results(s) /\ up # NoFactor
                 THEN up
                 ELSE HandedDown(ss, n, k - 1)

AutoSplitDone == SplitDone /\ last.tail = "Auto"

SplitOldName == pre.dims[SplitIdx].var

\* the tail that C6 as stated predicts
StatedAutoTail ==
    IF last.hs[1].is_rvar THEN "GuardWithIf"
    ELSE IF def_kind = "update"
         THEN IF FromInner(pre.splits, SplitOldName, Len(pre.splits))
              THEN "GuardWithIf" ELSE "RoundUp"
         ELSE IF \E k \in 1..Len(pre.splits) :
                    /\ is_split(pre.splits[k])
                    /\ pre.splits[k].tail = "ShiftInwards"
                    /\ can_prove_ge(pre.splits[k].factor, last.factor)
                    /\ DescendsFrom(pre.splits, SplitOldName, pre.splits[k].outer,
                                    Len(pre.splits))
              THEN "RoundUp" ELSE "ShiftInwards"

\* C6 as stated: Auto resolves to GuardWithIf when exact; else on an update to RoundUp
\* unless the dimension descends from the inner result of an earlier split (then
\* GuardWithIf); else on an init definition to ShiftInwards unless the dimension
\* descends from the outer result of an earlier ShiftInwards split whose factor is
\* provably at least the new one (then RoundUp).
C6_AutoTailAsStated == AutoSplitDone => NewEntry.tail = StatedAutoTail

\* the tail that the amended C6 predicts
AmendedAutoTail ==
    IF last.hs[1].is_rvar THEN "GuardWithIf"
    ELSE IF def_kind = "update"
         THEN IF FromInner(pre.splits, SplitOldName, Len(pre.splits))
              THEN "GuardWithIf" ELSE "RoundUp"
         ELSE LET f == HandedDown(pre.splits, SplitOldName, Len(pre.splits))
              IN IF f # NoFactor /\ can_prove_ge(f, last.factor)
                 THEN "RoundUp" ELSE "ShiftInwards"

\* C6 amended: as stated, except that on an init definition the dimension must be the
\* outer result of an earlier ShiftInwards split or derive from it through Rename and
\* Purify entries and through Split entries that are not themselves ShiftInwards (the
\* inner result of a ShiftInwards split and the result of a fuse inherit nothing), and
\* the factor compared is that of the nearest such ShiftInwards split.
C6_AutoTail == AutoSplitDone => NewEntry.tail = AmendedAutoTail

\* on an init definition the outer result of a ShiftInwards split by 4 is split by 2
\* with Auto, and RoundUp is recorded
C6_Witness ==
    /\ AutoSplitDone
    /\ def_kind = "init"
    /\ ~last.hs[1].is_rvar
    /\ HandedDown(pre.splits, SplitOldName, Len(pre.splits)) = Factor(4)
    /\ last.factor = Factor(2)
    /\ NewEntry.tail = "RoundUp"

\* the call asks for a tail that may not be recorded; its handles are consistent, its
\* new names are free and old exists
IllegalTailAsked ==
    /\ last.op = "split"
    /\ HandlesAgree
    /\ ~SplitNameCollision(pre.dims, last.hs[1].name, last.hs[2].name, last.hs[3].name)
    /\ SplitIdx # 0
    /\ \/ def_kind = "update" /\ last.tail = "ShiftInwards"
       \/ last.hs[1].is_rvar /\ last.tail \notin {"Auto", "GuardWithIf"}

\* C7: no Split entry in the history of an update definition has tail ShiftInwards,
\* every Split entry with exact has tail GuardWithIf, and a split call that would
\* record anything else fails with InvalidTailStrategy and appends no entry.
C7_TailLegality ==
    /\ \A k \in 1..Len(splits) :
          is_split(splits[k]) =>
              /\ def_kind = "update" => splits[k].tail # "ShiftInwards"
              /\ splits[k].exact => splits[k].tail = "GuardWithIf"
    /\ IllegalTailAsked => (last.err = "InvalidTailStrategy" /\ splits = pre.splits)

\* an explicit ShiftInwards split is refused on an update definition whose history
\* already holds a Split entry
C7_Witness ==
    /\ IllegalTailAsked
    /\ def_kind = "update"
    /\ last.tail = "ShiftInwards"
    /\ ~last.hs[1].is_rvar
    /\ \E k \in 1..Len(splits) : is_split(splits[k])
    /\ last.err = "InvalidTailStrategy"

----------------------------------------------------------------------------
(* Properties of fuse *)

\* where fuse finds outer, and where it then finds inner, as indices of pre.dims
FuseOuterIdx == FirstMatch(pre.dims, last.hs[2].name)

FuseInnerIdx ==
    LET k == FirstMatch(RemoveAt(pre.dims, FuseOuterIdx), last.hs[1].name)
    IN IF k = 0 THEN 0 ELSE IF k >= FuseOuterIdx THEN k + 1 ELSE k

IsReduction(d) == d.dim_type \in {"PureRVar", "ImpureRVar"}

\* s without its entries at the indices in gone
RECURSIVE Without(_, _)
Without(q, gone) ==
    IF Len(q) = 0 THEN <<>>
    ELSE LET rest == Without(SubSeq(q, 1, Len(q) - 1), gone)
         IN IF Len(q) \in gone THEN rest ELSE Append(rest, q[Len(q)])

\* C8: fuse(inner, outer, fused) fails unless inner and outer are both pure variables
\* or both reduction variables; on success the two entries give way to one entry
\* named inner.fused, the list is one shorter, the other entries keep their order, the
\* fused kind is PureRVar when both were PureRVar, ImpureRVar when both were reduction
\* variables and one was impure, PureVar when both were pure, and exactly one Fuse
\* entry is appended.
C8_FusePostcondition ==
    last.op = "fuse" =>
        LET io == FuseOuterIdx
            ii == FuseInnerIdx
            douter == pre.dims[io]
            dinner == pre.dims[ii]
            p == IF ii > io THEN ii - 1 ELSE ii
            fused_name == Append(dinner.var, last.hs[3].name)
        IN /\ (io # 0 /\ ii # 0 /\ IsReduction(dinner) # IsReduction(douter))
                  => last.err # "none"
           /\ last.err = "none" =>
                 /\ io # 0 /\ ii # 0 /\ io # ii
                 /\ Len(dims) = Len(pre.dims) - 1
                 /\ Without(dims, {p}) = Without(pre.dims, {io, ii})
                 /\ dims[p].var = fused_name
                 /\ dims[p].dim_type =
                       (IF dinner.dim_type = "PureVar" THEN "PureVar"
                        ELSE IF dinner.dim_type = "PureRVar" /\ douter.dim_type = "PureRVar"
                             THEN "PureRVar" ELSE "ImpureRVar")
                 /\ Len(splits) = Len(pre.splits) + 1
                 /\ \A k \in 1..Len(pre.splits) : splits[k] = pre.splits[k]
                 /\ NewEntry.split_type = "FuseVars"
                 /\ NewEntry.old_var = fused_name
                 /\ NewEntry.inner = dinner.var
                 /\ NewEntry.outer = douter.var

\* a PureRVar and an ImpureRVar have been fused into an ImpureRVar
C8_Witness ==
    /\ last.op = "fuse"
    /\ last.err = "none"
    /\ pre.dims[FuseInnerIdx].dim_type = "PureRVar"
    /\ pre.dims[FuseOuterIdx].dim_type = "ImpureRVar"
    /\ \E p \in 1..Len(dims) :
          /\ dims[p].var = Append(pre.dims[FuseInnerIdx].var, last.hs[3].name)
          /\ dims[p].dim_type = "ImpureRVar"

----------------------------------------------------------------------------
(* Properties of reorder *)

ReorderDone == last.op = "reorder" /\ last.err = "none"

\* how many entries of the list ds equal d
Count(ds, d) == Cardinality({i \in 1..Len(ds) : ds[i] = d})

\* C9: a successful reorder leaves a Dimension List with exactly the entries it had
\* (names with their kind, iteration strategy and device placement), in some order,
\* and of the same length.
C9_ReorderPreservesEntries ==
    ReorderDone =>
        /\ Len(dims) = Len(pre.dims)
        /\ \A i \in 1..Len(pre.dims) : Count(dims, pre.dims[i]) = Count(pre.dims, pre.dims[i])

NamesDistinct(vs) == \A i \in 1..Len(vs) : \A j \in 1..Len(vs) : i # j => vs[i].name # vs[j].name

\* where the dimension named by the i-th argument was
NamedIdx(i) == LastMatch(pre.dims, last.hs[i].name)

NamedIdxSet == {NamedIdx(i) : i \in 1..Len(last.hs)}

\* the k-th smallest member of the set S of numbers
KthSmallest(S, k) == CHOOSE m \in S : Cardinality({n \in S : n < m}) = k - 1

TileDone == last.op = "tile" /\ last.err = "none"

TileXIdx == FirstMatch(pre.dims, last.hs[1].name)

TileYIdx == FirstMatch(pre.dims, last.hs[2].name)

\* C10: after a successful reorder(v1, ..., vk) with distinct names every dimension
\* not named keeps its index and vi sits at the i-th smallest of the indices the named
\* dimensions had; and tile(x, y, xo, yo, xi, yi, ...) on adjacent x, y leaves
\* xi, yi, xo, yo in this order, innermost first, where x and y were.
C10_ReorderPlacement ==
    /\ (ReorderDone /\ NamesDistinct(last.hs)) =>
          /\ \A j \in 1..Len(pre.dims) : j \notin NamedIdxSet => dims[j] = pre.dims[j]
          /\ \A i \in 1..Len(last.hs) :
                dims[KthSmallest(NamedIdxSet, i)] = pre.dims[NamedIdx(i)]
    /\ (TileDone /\ TileYIdx = TileXIdx + 1) =>
          LET i == TileXIdx
              x == pre.dims[i]
              y == pre.dims[i + 1]
          IN /\ Len(dims) = Len(pre.dims) + 2
             /\ dims[i].var = Append(x.var, last.hs[5].name)
             /\ dims[i + 1].var = Append(y.var, last.hs[6].name)
             /\ dims[i + 2].var = Append(x.var, last.hs[3].name)
             /\ dims[i + 3].var = Append(y.var, last.hs[4].name)

\* a reorder of three dimensions has moved each of them
C10_Witness ==
    /\ ReorderDone
    /\ Len(last.hs) = 3
    /\ NamesDistinct(last.hs)
    /\ \A i \in 1..3 : KthSmallest(NamedIdxSet, i) # NamedIdx(i)

----------------------------------------------------------------------------
(* Properties of reorder: reduction variables *)

\* the last call is a reorder whose names all resolve
ReorderResolved ==
    /\ last.op = "reorder"
    /\ \A i \in 1..Len(last.hs) : NamedIdx(i) # 0

\* the call lists two dimensions of the given kinds against their current order
InvertsPairOf(kinds) ==
    \E i \in 1..Len(last.hs) : \E j \in (i + 1)..Len(last.hs) :
        /\ pre.dims[NamedIdx(i)].dim_type \in kinds
        /\ pre.dims[NamedIdx(j)].dim_type \in kinds
        /\ NamedIdx(i) > NamedIdx(j)

ReorderSafetyFor(kinds) ==
    ReorderResolved =>
        /\ (InvertsPairOf(kinds) /\ ~(assoc /\ comm)) => last.err = "UnsafeReorder"
        /\ ~InvertsPairOf(kinds) => last.err # "UnsafeReorder"

----------------------------------------------------------------------------
(* Properties of rfactor *)

\* the last call was rfactor
RfactorResolved == last.op = "rfactor"

\* nothing rfactor reads or writes differs from what it was before the call
RfactorLeftUnchanged ==
    /\ dims = pre.dims
    /\ splits = pre.splits
    /\ defn = pre.defn
    /\ intm = pre.intm

\* C12: rfactor on an init definition fails, rfactor on an update whose operator is not
\* proved associative fails with NotAssociative, and either failure creates no
\* intermediate and leaves the Dimension List, the Split History, the Reduction Domain,
\* the arguments and the values of the stage as they were before the call.
C12_RfactorPrecondition ==
    RfactorResolved =>
        /\ is_init => last.err = "NotAnUpdate"
        /\ (~is_init /\ ~assoc) => last.err = "NotAssociative"
        /\ last.err \in {"NotAnUpdate", "NotAssociative"} =>
              RfactorLeftUnchanged /\ ~intm.defined

\* rfactor fails with NotAssociative on an update that was split before
C12_Witness ==
    /\ RfactorResolved
    /\ last.err = "NotAssociative"
    /\ Len(splits) > 0
    /\ RfactorLeftUnchanged
    /\ ~intm.defined


\* the preserved list of the last call of rfactor, read back from its arguments
LastPreserved ==
    [k \in 1..(Len(last.hs) \div 2) |->
        Preserved(last.hs[2 * k - 1].name, last.hs[2 * k].name)]

\* the last call was rfactor on an associative update with a preserved list that names
\* reduction dimensions and fresh replacement names
RfactorValidated ==
    /\ RfactorResolved
    /\ ~is_init
    /\ assoc
    /\ ValidatePreserved(pre.dims, LastPreserved) = "none"

\* the dimensions of ds that the preserved list keeps
KeptDims(ds, preserved) ==
    {i \in 1..Len(ds) : \E k \in 1..Len(preserved) : FirstMatch(ds, preserved[k].r) = i}

\* every reduction dimension outside a kept one is kept
KeptIsSuffix(ds, preserved) ==
    \A i \in KeptDims(ds, preserved) : \A j \in (i + 1)..Len(ds) :
        is_rvar(ds[j]) => j \in KeptDims(ds, preserved)

\* C13: for an associative operator that is not commutative, rfactor gets past its
\* order check exactly when the kept reduction dimensions are a suffix of the reduction
\* dimensions in iteration order, and fails with NonCommutativeOrderViolation
\* otherwise; for a commutative operator no preserved set fails that check.
C13_NonCommutativeOrder ==
    RfactorValidated =>
        /\ ~comm => (last.err = "NonCommutativeOrderViolation"
                        <=> ~KeptIsSuffix(pre.dims, LastPreserved))
        /\ (~comm /\ last.err = "none") => KeptIsSuffix(pre.dims, LastPreserved)
        /\ comm => last.err # "NonCommutativeOrderViolation"

\* a non-commutative update: keeping the inner r while lifting the outer s is refused
C13_Witness ==
    /\ RfactorValidated
    /\ ~comm
    /\ Len(LastPreserved) = 1
    /\ \E i \in KeptDims(pre.dims, LastPreserved) :
          \E j \in (i + 1)..Len(pre.dims) : is_rvar(pre.dims[j])
    /\ last.err = "NonCommutativeOrderViolation"


\* the last call was rfactor and it returned the intermediate
RfactorSucceeded == RfactorResolved /\ last.err = "none"

\* the reduction variables rfactor partitions: those of the definition before the
\* call, with the directives of the history replayed on them
ReductionVarsBefore ==
    ApplySplits(pre.splits, Len(pre.splits),
                Exprs(pre.defn.rvars, pre.defn.predicates, pre.defn.args,
                      pre.defn.values)).e.rvars

\* the variables of q that no pair of the preserved list names
LiftedOf(q, preserved) ==
    {n \in Range(q) : \A k \in 1..Len(preserved) : ~var_name_match(n, preserved[k].r)}

\* position of the name n in the sequence q
IndexIn(q, n) == CHOOSE i \in 1..Len(q) : q[i] = n

\* sub holds distinct variables of q in the order q has them
InOrderOf(sub, q) ==
    /\ Range(sub) \subseteq Range(q)
    /\ \A i, j \in 1..Len(sub) : i < j => IndexIn(q, sub[i]) < IndexIn(q, sub[j])

\* the reduction domains of the intermediate and of the stage split the variables
\* in two, in order
RVarsPartitioned ==
    /\ Range(intm.rvars) = LiftedOf(ReductionVarsBefore, LastPreserved)
    /\ Range(defn.rvars) = Range(ReductionVarsBefore) \ Range(intm.rvars)
    /\ InOrderOf(intm.rvars, ReductionVarsBefore)
    /\ InOrderOf(defn.rvars, ReductionVarsBefore)

\* no dimension of the stage is a lifted variable
NoLiftedDim == \A i \in 1..Len(dims) : dims[i].var \notin Range(intm.rvars)

\* the arguments of the stage are its pure arguments
PureArgsOnly == defn.args = AsExprs(defn.dim_vars)

\* C14: a successful rfactor leaves the lifted variables as the reduction domain of the
\* intermediate and the kept ones as the reduction domain of the stage, disjoint,
\* together the reduction variables of before, each in the order of before; no
\* dimension of the stage is a lifted variable and its arguments are the pure
\* arguments; an empty preserved list empties the reduction domain of the stage.
C14_RfactorPartition ==
    RfactorSucceeded =>
        /\ RVarsPartitioned
        /\ NoLiftedDim
        /\ PureArgsOnly
        /\ (LastPreserved = <<>> => defn.rvars = <<>>)


\* the replacement name the preserved list gives the kept dimension i of ds
ReplacementOf(ds, preserved, i) ==
    preserved[CHOOSE k \in 1..Len(preserved) : FirstMatch(ds, preserved[k].r) = i].v

\* the reduction variable of q that the pair naming the replacement v keeps, 0 for none
KeptIndexOf(q, preserved, v) ==
    LET m == {i \in 1..Len(q) : \E k \in 1..Len(preserved) :
                 preserved[k].v = v /\ var_name_match(q[i], preserved[k].r)}
    IN IF m = {} THEN 0 ELSE CHOOSE i \in m : \A j \in m : i <= j

\* names holds the replacement names of the preserved list, each once, in the order
\* the variables they replace have in q
ReplacementsInOrder(names, q, preserved) ==
    /\ Len(names) = Len(preserved)
    /\ Range(names) = {preserved[k].v : k \in 1..Len(preserved)}
    /\ \A i, j \in 1..Len(names) :
          (i < j /\ KeptIndexOf(q, preserved, names[i]) # 0
                 /\ KeptIndexOf(q, preserved, names[j]) # 0)
              => KeptIndexOf(q, preserved, names[i]) < KeptIndexOf(q, preserved, names[j])

\* the entries of the history that name no reduction variable when rfactor replays it
NotYetApplied ==
    ApplySplits(pre.splits, Len(pre.splits),
                Exprs(pre.defn.rvars, pre.defn.predicates, pre.defn.args,
                      pre.defn.values)).temp

\* the dimension i of the intermediate is the dimension i of the stage before the call,
\* a kept one under its replacement name as a pure dimension
IntmDimOf(i) ==
    IF i \in KeptDims(pre.dims, LastPreserved)
    THEN /\ intm.dims[i].var = <<ReplacementOf(pre.dims, LastPreserved, i)>>
         /\ intm.dims[i].dim_type = "PureVar"
         /\ intm.dims[i].for_type = pre.dims[i].for_type
         /\ intm.dims[i].device_api = pre.dims[i].device_api
    ELSE intm.dims[i] = pre.dims[i]

\* entry k of the intermediate's history, past the ones carried over, purifies a kept
\* variable into its replacement
IsPurifyOfKept(s) ==
    /\ is_purify(s)
    /\ \E k \in 1..Len(LastPreserved) :
          /\ var_name_match(s.old_var, LastPreserved[k].r)
          /\ s.outer = <<LastPreserved[k].v>>

\* C15: the intermediate a successful rfactor returns has, as init arguments, the pure
\* arguments followed by the replacement names in the order of the kept variables and,
\* as init values, the identities; its update has the Dimension List the stage had at
\* the call, each kept reduction dimension renamed to its replacement as a PureVar with
\* the same iteration strategy and device, and a history of the not-yet-applied entries
\* of the stage followed by one Purify entry per kept variable.
C15_IntermediateShape ==
    RfactorSucceeded =>
        /\ Len(intm.init_args) = Len(pre.defn.dim_vars) + Len(LastPreserved)
        /\ SubSeq(intm.init_args, 1, Len(pre.defn.dim_vars)) = pre.defn.dim_vars
        /\ ReplacementsInOrder(SubSeq(intm.init_args, Len(pre.defn.dim_vars) + 1,
                                      Len(intm.init_args)),
                               ReductionVarsBefore, LastPreserved)
        /\ intm.init_values = "identity"
        /\ Len(intm.dims) = Len(pre.dims)
        /\ \A i \in 1..Len(pre.dims) : IntmDimOf(i)
        /\ Len(intm.splits) = Len(NotYetApplied) + Len(LastPreserved)
        /\ SubSeq(intm.splits, 1, Len(NotYetApplied)) = NotYetApplied
        /\ \A k \in (Len(NotYetApplied) + 1)..Len(intm.splits) :
              IsPurifyOfKept(intm.splits[k])
        /\ \A k \in 1..Len(LastPreserved) :
              \E j \in (Len(NotYetApplied) + 1)..Len(intm.splits) :
                  intm.splits[j].outer = <<LastPreserved[k].v>>


\* rfactor keeps both r and s of a stage whose pure dimension x was split before:
\* the intermediate carries the split of x and two Purify entries
C15_Witness ==
    /\ RfactorSucceeded
    /\ Len(LastPreserved) = 2
    /\ Len(NotYetApplied) > 0
    /\ Len(intm.splits) = Len(NotYetApplied) + 2
    /\ \E i \in KeptDims(pre.dims, LastPreserved) : intm.dims[i].dim_type = "PureVar"


\* the directives as applied to the update definition of the intermediate
IntmOps == {"intm.split", "intm.fuse", "intm.rename", "intm.purify", "intm.reorder",
            "intm.set_dim_type"}

\* the directives as applied to the stage that was factored
StageOps == {"split", "fuse", "rename", "purify", "reorder", "set_dim_type"}

\* C16: the stage rfactor creates is derived, not aliased: a directive applied to the
\* intermediate leaves the Dimension List, the Split History and the Reduction Domain
\* of the original as they were, and a directive applied to the original leaves those
\* of the intermediate as they were.
C16_DerivedNotAliased ==
    /\ last.op \in IntmOps =>
          /\ dims = pre.dims
          /\ splits = pre.splits
          /\ defn.rvars = pre.defn.rvars
          /\ defn.predicates = pre.defn.predicates
    /\ (last.op \in StageOps /\ pre.intm.defined) =>
          /\ intm.dims = pre.intm.dims
          /\ intm.splits = pre.intm.splits
          /\ intm.rvars = pre.intm.rvars
          /\ intm.predicates = pre.intm.predicates

\* a split of the intermediate went through and changed its Dimension List and its
\* history, and the original, which still has dimensions, kept its own
C16_Witness ==
    /\ last.op = "intm.split"
    /\ last.err = "none"
    /\ intm.dims # pre.intm.dims
    /\ Len(intm.splits) = Len(pre.intm.splits) + 1
    /\ dims = pre.dims
    /\ splits = pre.splits


\* C20: rfactor validates before it mutates: a call of rfactor that fails, for
\* whichever reason it raises, leaves the Dimension List, the Split History, the
\* Reduction Domain, the predicate, the arguments and the values of the original
\* stage as they were before the call.
C20_RfactorValidatesFirst ==
    (RfactorResolved /\ last.err \notin {"none", "Crash"}) =>
        /\ dims = pre.dims
        /\ splits = pre.splits
        /\ defn.rvars = pre.defn.rvars
        /\ defn.predicates = pre.defn.predicates
        /\ defn.args = pre.defn.args
        /\ defn.values = pre.defn.values


----------------------------------------------------------------------------
(* Properties of a failing split *)

\* C19: a split that fails, because the dimension is not found, a new name is taken or
\* the tail strategy is illegal, leaves the Dimension List and the Split History as
\* they were before the call.
C19_FailingSplitMutatesNothing ==
    (last.op = "split" /\ last.err # "none") =>
        /\ dims = pre.dims
        /\ splits = pre.splits

----------------------------------------------------------------------------
(* Properties of compute_with and specialize *)

HasFuseLevel(s) == s.fuse_var # ""

SpecializeOps == {"specialize", "specialize_fail"}

\* the call just made would have given the stage the second of the two
WouldCreateSecond ==
    \/ last.op \in SpecializeOps /\ HasFuseLevel(pre) /\ pre.specializations = <<>>
    \/ last.op = "compute_with" /\ ~HasFuseLevel(pre) /\ pre.specializations # <<>>

\* C17: a stage never has both a compute_with fuse level and a specialization, and
\* the call that would add the second of the two to a stage that has the first fails
C17_ComputeWithExcludesSpecialization ==
    /\ ~(fuse_var # "" /\ specializations # <<>>)
    /\ WouldCreateSecond => last.err # "none"

----------------------------------------------------------------------------
(* Properties of the compiled pipeline *)

ScheduleOf(s) == <<s.dims, s.splits, s.fuse_var, s.specializations>>

\* the call just made changed what a compilation reads of the stage
ScheduleMutated ==
    /\ last.op \notin {"define", "realize", "update", "operator Stage"}
    /\ ScheduleOf(pre) # ScheduleOf(Snapshot)

\* C18: a directive that mutates the schedule, through the Func or through a Stage
\* held by the caller, leaves no compiled artifact, and the artifact that realize
\* returns was compiled from the schedule as it is
C18_InvalidateOnWrite ==
    /\ ScheduleMutated => ~cache.compiled
    /\ last.op = "realize" => cache.compiled /\ cache.schedule = ScheduleNow

----------------------------------------------------------------------------
(* Properties of split followed by fuse *)

\* the last two calls were split(v, vo, vi, factor) and fuse(vi, vo, v), both successful
SplitThenFuse ==
    /\ prior.tracked
    /\ prior.last.op = "split" /\ prior.last.err = "none"
    /\ last.op = "fuse" /\ last.err = "none"
    /\ last.hs = <<prior.last.hs[3], prior.last.hs[2], prior.last.hs[1]>>

\* the Dimension List before the split
BeforeSplit == prior.pre.dims

\* where v was before the split
SplitVarIdx == FirstMatch(BeforeSplit, prior.last.hs[1].name)

Matches(ds, var) == {i \in 1..Len(ds) : var_name_match(ds[i].var, var)}

\* C21: after split(v, vo, vi, factor) and fuse(vi, vo, v) on a pure variable v the
\* Dimension List has its length of before the split, the name v resolves to one
\* entry, at v's index of before, with v's kind, iteration strategy and device
\* placement of before, and every other entry is as before
C21_SplitFuseInverse ==
    (SplitThenFuse /\ BeforeSplit[SplitVarIdx].dim_type = "PureVar") =>
        /\ Len(dims) = Len(BeforeSplit)
        /\ Matches(dims, prior.last.hs[1].name) = {SplitVarIdx}
        /\ dims[SplitVarIdx].dim_type = BeforeSplit[SplitVarIdx].dim_type
        /\ dims[SplitVarIdx].for_type = BeforeSplit[SplitVarIdx].for_type
        /\ dims[SplitVarIdx].device_api = BeforeSplit[SplitVarIdx].device_api
        /\ \A j \in 1..Len(dims) : j # SplitVarIdx => dims[j] = BeforeSplit[j]

\* v named one dimension before the split
SplitVarUnambiguous == Cardinality(Matches(BeforeSplit, prior.last.hs[1].name)) = 1

\* the same, for a name that no earlier rename, fuse or purify gave to a second dimension
SplitFuseInverseOfUnambiguous == (SplitThenFuse /\ SplitVarUnambiguous) => C21_SplitFuseInverse

C21_Witness ==
    /\ SplitThenFuse
    /\ BeforeSplit[SplitVarIdx].dim_type = "PureVar"
    /\ BeforeSplit[SplitVarIdx].for_type = "Vectorized"
    /\ SplitVarIdx > 1

----------------------------------------------------------------------------
(* Properties of remove_dimension *)

RemoveDone == last.op = "remove_dimension"

RemovedVar == last.hs[1]

\* the entry s consumes var
Consumes(s, var) == var \in Operands(s)

ConsumedBefore == \E k \in 1..Len(pre.splits) : Consumes(pre.splits[k], RemovedVar)

\* the removed set when the backward walk reaches entry k, given the entries deleted
RemovedAbove(ss, deleted, k) ==
    {RemovedVar} \cup UNION {Operands(ss[j]) : j \in {i \in (k + 1)..Len(ss) : deleted[i]}}

\* the entries the removal deletes: those with a result in the removed set
DeletedEntries(ss) ==
    CHOOSE deleted \in [1..Len(ss) -> BOOLEAN] :
        \A k \in 1..Len(ss) :
            deleted[k] <=> Results(ss[k]) \cap RemovedAbove(ss, deleted, k) # {}

DeletedIdx(ss) == {k \in 1..Len(ss) : DeletedEntries(ss)[k]}

\* var is the full name of a dimension
IsDimension(ds, var) == \E i \in 1..Len(ds) : ds[i].var = var

\* the outcome that the claim's sentence gives: refusal if consumed, removal otherwise
StatedRemoval ==
    IF ConsumedBefore
    THEN last.err = "DependentTransformError"
    ELSE /\ last.err = "none"
         /\ IsDimension(pre.dims, RemovedVar)
         /\ dims = RemoveAt(pre.dims, FindDim(pre.dims, RemovedVar))
         /\ splits = Without(pre.splits, DeletedIdx(pre.splits))

----------------------------------------------------------------------------
(* Properties of the race gate over whole behaviours *)

RacingTypes == {"Parallel", "Vectorized"}

\* dimension d iterates an impure reduction variable in parallel
RacingDim(d) == d.dim_type = "ImpureRVar" /\ d.for_type \in RacingTypes

\* C23: every ImpureRVar dimension whose iteration strategy is Parallel or Vectorized
\* is on a stage with allow_race_conditions or atomic set
C23_RaceFreedom ==
    \A i \in 1..Len(dims) : RacingDim(dims[i]) => (allow_race \/ atomic_flag)

----------------------------------------------------------------------------
(* Properties of vectorization over whole behaviours *)

VectorizedIdx(ds) == {i \in 1..Len(ds) : ds[i].for_type = "Vectorized"}

\* C24: at most one entry of the Dimension List is Vectorized, in the stage and in
\* the intermediate that rfactor returned
C24_OneVectorizedDim ==
    /\ Cardinality(VectorizedIdx(dims)) <= 1
    /\ intm.defined => Cardinality(VectorizedIdx(intm.dims)) <= 1

----------------------------------------------------------------------------
(* Properties of rename *)

\* the last call was a rename that found its dimension and passed the test of kinds
RenameResolved ==
    /\ last.op = "rename"
    /\ last.hs[1].is_rvar = last.hs[2].is_rvar
    /\ FirstMatch(pre.dims, last.hs[1].name) # 0

RenamedIdx == FirstMatch(pre.dims, last.hs[1].name)

RenameOldName == pre.dims[RenamedIdx].var

RenameNewName == Append(RenameOldName, last.hs[2].name)

\* the entries that have old's qualified name as a result, and those that consume it
DefiningIdx == {k \in 1..Len(pre.splits) : RenameOldName \in Results(pre.splits[k])}

ConsumingIdx == {k \in 1..Len(pre.splits) : RenameOldName \in Operands(pre.splits[k])}

\* a consuming entry comes later than every defining one
ConsumedLater ==
    \E c \in ConsumingIdx : \A k \in DefiningIdx : c > k

LatestDefining == CHOOSE k \in DefiningIdx : \A j \in DefiningIdx : j <= k

\* entry s2 is entry s with one result field renamed from old's name to the new name
RewrittenEntry(s, s2) ==
    \/ is_fuse(s) /\ s.old_var = RenameOldName /\ s2 = [s EXCEPT !.old_var = RenameNewName]
    \/ ~is_fuse(s) /\ s.inner = RenameOldName /\ s2 = [s EXCEPT !.inner = RenameNewName]
    \/ ~is_fuse(s) /\ s.outer = RenameOldName /\ s2 = [s EXCEPT !.outer = RenameNewName]

RenameEntry ==
    SplitEntry(RenameOldName, RenameNewName, NoName, Factor(1), last.hs[1].is_rvar,
               "RoundUp", "RenameVar")

\* C25: a rename fails if old was consumed by an entry later than every entry that has
\* it as a result; otherwise the renamed dimension keeps its index, kind and iteration
\* strategy and gains the suffix, and the latest history entry with old's name as a
\* result is rewritten in place, all others untouched, or, if there is none, exactly
\* one Rename entry is appended
C25_RenameHistory ==
    RenameResolved =>
        IF ConsumedLater
        THEN last.err # "none"
        ELSE /\ last.err = "none"
             /\ dims = [pre.dims EXCEPT ![RenamedIdx].var = RenameNewName]
             /\ IF DefiningIdx # {}
                THEN /\ Len(splits) = Len(pre.splits)
                     /\ RewrittenEntry(pre.splits[LatestDefining], splits[LatestDefining])
                     /\ \A k \in 1..Len(splits) :
                           k # LatestDefining => splits[k] = pre.splits[k]
                ELSE splits = Append(pre.splits, RenameEntry)

\* a rename that rewrote an entry below the last one of a history
C25_Witness ==
    /\ RenameResolved
    /\ last.err = "none"
    /\ DefiningIdx # {}
    /\ LatestDefining < Len(pre.splits)

----------------------------------------------------------------------------
(* Properties of reorder under a fuse level *)

\* the last call was a reorder of a stage that has a fuse level
ReorderUnderFuseLevel == last.op = "reorder" /\ pre.fuse_var # ""

\* where the dimension of the fuse level was before the reorder, 0 when nowhere
FuseLevelIdx == FirstMatch(pre.dims, pre.fuse_var)

\* the same reorder on the same schedule without a fuse level
ReorderWithoutFuseLevel ==
    reorder_op([dims |-> pre.dims, splits |-> pre.splits, fuse_var |-> "", err |-> "none"],
               last.hs)

\* C26: after a successful reorder of a stage with a fuse level, the fuse level names
\* the dimension at the index where its dimension was before, or the innermost
\* dimension if it was nowhere; and the reorder fails only if it fails without a
\* fuse level too
C26_FuseLevelFollowsReorder ==
    ReorderUnderFuseLevel =>
        /\ last.err = ReorderWithoutFuseLevel.err
        /\ last.err = "none" =>
              FirstMatch(dims, fuse_var) = (IF FuseLevelIdx # 0 THEN FuseLevelIdx ELSE 1)

----------------------------------------------------------------------------
(* Properties of a failing tag *)

\* the errors that the tagging step raises once its dimension is found
TaggingErrors == {"RaceConditionError", "AtomicNotAssociative", "MultipleVectorization"}

ForTypes(ds) == [i \in 1..Len(ds) |-> ds[i].for_type]

\* C27: a failing set_dim_type leaves every iteration strategy as it was, and a
\* parallel, vectorize or unroll with a factor that fails in its tagging step leaves
\* the Dimension List and the Split History as they were before the call
C27_FailingTagMutatesNothing ==
    /\ (last.op = "set_dim_type" /\ last.err # "none") => ForTypes(dims) = ForTypes(pre.dims)
    /\ (last.op = "tag_with_factor" /\ last.err \in TaggingErrors) =>
           dims = pre.dims /\ splits = pre.splits

----------------------------------------------------------------------------
(* Properties of reorder: repeated names *)

Bijections(n) == {f \in [1..n -> 1..n] : \A i, j \in 1..n : f[i] = f[j] => i = j}

IsPermutationOf(ds, ds_old) ==
    /\ Len(ds) = Len(ds_old)
    /\ \E f \in Bijections(Len(ds_old)) : \A i \in 1..Len(ds) : ds[i] = ds_old[f[i]]

\* every name of the reorder just called resolved to a dimension
ReorderNamesResolve ==
    /\ last.op = "reorder"
    /\ \A i \in 1..Len(last.hs) : LastMatch(pre.dims, last.hs[i].name) # 0

\* C28: after a reorder whose names all resolve to dimensions, repeated names
\* included, the Dimension List is a permutation of the one before the call
C28_ReorderIsPermutation == ReorderNamesResolve => IsPermutationOf(dims, pre.dims)

----------------------------------------------------------------------------
(* Properties of the handles to a definition *)

\* C29: the two handles to a definition carry the same stage index, a compute_with
\* through either records its fuse level on that definition, and no call through
\* them writes the fuse level of the pure definition below an update
C29_HandlesAgree ==
    /\ \A h1, h2 \in StageHandles : stage_index(h1) = stage_index(h2)
    /\ (last.op = "compute_with" /\ last.err = "none") => fuse_var = last.hs[1].name
    /\ def_kind = "update" => pure_fuse_var = ""

----------------------------------------------------------------------------
(* Properties of the Dimension List against the Split History *)

\* the names that the entries of the history consume
ConsumedNames(sp) == UNION {Operands(sp[j]) : j \in 1..Len(sp)}

\* the names of the Dimension List
LiveNames(ds) == {ds[i].var : i \in 1..Len(ds)}

\* rename or remove_dimension found the dimension in the list and then refused it
\* because an entry of the history consumes its name
LiveRefusal ==
    \/ /\ last.op = "rename" /\ last.err = "AlreadyTransformed"
       /\ FirstMatch(pre.dims, last.hs[1].name) # 0
    \/ /\ last.op = "remove_dimension" /\ last.err = "DependentTransformError"
       /\ FindDim(pre.dims, last.hs[1]) # 0

\* C30: no name of the Dimension List is a consumed operand of an entry of the Split
\* History (the old variable of a Split, Rename or Purify entry, the inner or outer of
\* a Fuse entry), and no refusal of rename or remove_dimension is triggered by a
\* dimension that is still in the list
C30_LiveNamesNotConsumed ==
    /\ LiveNames(dims) \cap ConsumedNames(splits) = {}
    /\ ~LiveRefusal

=============================================================================
